---- MODULE Spec2Model ----
(***************************************************************************)
(* rosemary-memory: the graph store (memory/store.py), the insight         *)
(* consolidation pipeline (memory/insights.py) and the update workflow     *)
(* (memory/update/update.py) as a state machine over one shared graph.     *)
(*                                                                         *)
(* Strings are sequences of one-character strings, so that trimming, case  *)
(* folding and substring search are computed and not assumed.  A property  *)
(* that Cypher may leave unset is an option: None (absent / null) or       *)
(* Some(v).                                                                *)
(***************************************************************************)
EXTENDS Integers, Sequences, FiniteSets, TLC

VARIABLES
    nodes,      \* the nodes of the graph: records, see Node
    edges,      \* the relationships: [type, from, to], from/to are node ids
    nextId,     \* how many ids _new_id has handed out
    clock,      \* the value _utc_now returns next
    ret,        \* what the last operation returned (or that it raised)
    label_ready,\* GraphStore._label_ready of the long-lived store instance
    runs,       \* generate_insights: one record per pipeline run
    handled,    \* history: ids of the details some run has counted
    calls,      \* concurrent insert_cluster_summary_detail callers
    faults,     \* the database: how its next executions of a statement end
    execs,      \* history: the executions and sleeps of the last executor run
    catalog,    \* the database: ag_catalog.ag_graph, a bag of graph names
    starters,   \* ensure_graph: one record per process that is starting
    graph_name, \* GraphStore._graph
    request,    \* the retrieval engine: the arguments of the call at hand
    sent,       \* history: the graph names of the statements sent to the database
    primed      \* history: priming statements issued, per relation type

vars == <<nodes, edges, nextId, clock, ret, label_ready, runs, handled, calls,
          faults, execs, catalog, starters, graph_name, request, sent, primed>>
procVars == <<runs, handled, calls>>
dbVars == <<faults, execs, catalog, starters, graph_name, request, sent, primed>>

(*************************** bounds of the model ***************************)
MaxClock == 4       \* _utc_now is read while it is below this: the writes of one behaviour
MaxTools == 1       \* tool calls the Reasoner makes in one agent.run
MaxCalls == 2       \* ensure_graph calls one process makes
MaxRepeats == 2     \* times in a row one link call is made with the same arguments
MaxPrimings == 2    \* priming statements counted for one relation type
MaxRows == 3        \* rows store.retrieve hands to retrieve_memory
MaxTopK == 2        \* the largest top_k asked for
MaxRecords == 2     \* records handed to format_results
MaxDim == 3         \* the longest vector handed to cosine_similarity
MaxFaults == 4      \* executions whose outcome the database has fixed in advance
Attempts == 3       \* range(3) of _execute_cypher_with_retry

(******************************* options ***********************************)
None == {}
Some(v) == {v}
TheVal(o) == CHOOSE v \in o : TRUE
\* Cypher's coalesce(a, b)
Coalesce(a, b) == IF a = None THEN b ELSE a

(******************************* strings ***********************************)
LowerCh(c) ==
    CASE c = "A" -> "a" [] c = "B" -> "b" [] c = "D" -> "d" [] c = "G" -> "g"
      [] c = "S" -> "s" [] c = "T" -> "t" [] c = "U" -> "u" [] c = "E" -> "e"
      [] c = "F" -> "f" [] c = "H" -> "h" [] c = "O" -> "o" [] c = "P" -> "p"
      [] OTHER -> c

UpperCh(c) ==
    CASE c = "a" -> "A" [] c = "b" -> "B" [] c = "d" -> "D" [] c = "g" -> "G"
      [] c = "s" -> "S" [] c = "t" -> "T" [] c = "u" -> "U" [] c = "e" -> "E"
      [] c = "f" -> "F" [] c = "h" -> "H" [] c = "o" -> "O" [] c = "p" -> "P"
      [] OTHER -> c

\* str.lower() / Cypher toLower
ToLower(s) == [i \in 1..Len(s) |-> LowerCh(s[i])]

IsSpace(c) == c = " "

\* str.split(): the maximal runs of non-space characters, in order
RECURSIVE SplitFrom(_, _, _)
SplitFrom(s, i, word) ==
    IF i > Len(s)
    THEN IF word = <<>> THEN <<>> ELSE <<word>>
    ELSE IF IsSpace(s[i])
         THEN IF word = <<>>
              THEN SplitFrom(s, i + 1, <<>>)
              ELSE <<word>> \o SplitFrom(s, i + 1, <<>>)
         ELSE SplitFrom(s, i + 1, Append(word, s[i]))

Split(s) == SplitFrom(s, 1, <<>>)

\* " ".join(words)
RECURSIVE Join(_)
Join(words) ==
    IF words = <<>> THEN <<>>
    ELSE IF Len(words) = 1 THEN words[1]
    ELSE words[1] \o <<" ">> \o Join(Tail(words))

\* str.strip()
RECURSIVE LStrip(_)
LStrip(s) == IF s # <<>> /\ IsSpace(s[1]) THEN LStrip(Tail(s)) ELSE s
RECURSIVE RStrip(_)
RStrip(s) ==
    IF s # <<>> /\ IsSpace(s[Len(s)]) THEN RStrip(SubSeq(s, 1, Len(s) - 1)) ELSE s
Strip(s) == RStrip(LStrip(s))

\* Python's `needle in hay` / Cypher's `hay CONTAINS needle`
Contains(hay, needle) ==
    \E i \in 0..(Len(hay) - Len(needle)) : SubSeq(hay, i + 1, i + Len(needle)) = needle

Lowercase == {"a", "b", "c", "d", "e", "f", "g", "h", "i", "j", "k", "l", "m",
              "n", "o", "p", "q", "r", "s", "t", "u", "v", "w", "x", "y", "z"}
Uppercase == {"A", "B", "C", "D", "E", "F", "G", "H", "I", "J", "K", "L", "M",
              "N", "O", "P", "Q", "R", "S", "T", "U", "V", "W", "X", "Y", "Z"}
Numerals == {"0", "1", "2", "3", "4", "5", "6", "7", "8", "9"}

\* age.py line 38: re.fullmatch(r"[A-Za-z_][A-Za-z0-9_]*", graph_name)
IsIdentifier(name) ==
    /\ name # <<>>
    /\ name[1] \in Lowercase \cup Uppercase \cup {"_"}
    /\ \A i \in 2..Len(name) : name[i] \in Lowercase \cup Uppercase \cup Numerals \cup {"_"}

General == <<"G", "e", "n", "e", "r", "a", "l">>

\* update.py _normalize_label
_normalize_label(text) ==
    LET clean == Join(Split(Strip(text)))
    IN  IF clean = <<>> THEN General
        ELSE <<UpperCh(clean[1])>> \o ToLower(Tail(clean))

(***************************** ids and time ********************************)
Digits == <<"0", "1", "2", "3", "4", "5", "6", "7", "8", "9">>

\* the n-th id _new_id hands out: ids are fresh, opaque strings (uuid4().hex)
IdStr(n) == <<Digits[(n \div 10) + 1], Digits[(n % 10) + 1]>>
IssuedIds == {IdStr(n) : n \in 1..nextId}

(******************************** graph ************************************)
\* A node: its label (kind) and its properties.  `label` is the Domain /
\* Cluster property, `text` the Topic / Summary / Detail / Insight property.
Node(kind, id, label, text, source, created_at, embedding, pending) ==
    [kind |-> kind, id |-> id, label |-> label, text |-> text, source |-> source,
     created_at |-> created_at, embedding |-> embedding,
     insight_pending |-> pending, insight_processed_at |-> None]

\* what MERGE / CREATE binds before any SET: only the properties of the pattern
Bare(kind, label, text) == Node(kind, None, label, text, None, None, None, None)

\* a relationship; `copy` tells apart relationships of one type between the
\* same two nodes, the first being copy 1
Edge(type, from, to) == [type |-> type, from |-> from, to |-> to, copy |-> 1]

\* the relationships of es with the type and the end nodes of e
Between(es, e) == {x \in es : x.type = e.type /\ x.from = e.from /\ x.to = e.to}

\* a variant that creates a relationship whether or not one is there (CREATE)
CreateEdges(es, new) ==
    es \cup {[e EXCEPT !.copy = Cardinality(Between(es, e)) + 1] : e \in new}

\* MERGE (a)-[:<type>]->(b): a relationship is created only between nodes
\* that have none of the type
MergeEdges(es, new) == es \cup {e \in new : Between(es, e) = {}}

Graph == [nodes |-> nodes, edges |-> edges]

OfKind(ns, kind) == {n \in ns : n.kind = kind}
ById(ns, kind, id) == {n \in OfKind(ns, kind) : n.id = Some(id)}

\* dict.pop("embedding", None)
PopEmbedding(props) ==
    IF "embedding" \in DOMAIN props THEN [props EXCEPT !.embedding = None] ELSE props

\* the result of one Cypher statement: the graph it leaves and its rows
Result(ns, es, rows) == [nodes |-> ns, edges |-> es, rows |-> rows]

\* a variant that creates a node whether or not the pattern matches
CreateOnLabel(ns, kind, label) == {Bare(kind, Some(label), None)}

\* MERGE (c:<kind> {label: $label}): the nodes the pattern matches, or one
\* new node when it matches none
MergeOnLabel(ns, kind, label) ==
    LET matched == {n \in OfKind(ns, kind) : n.label = Some(label)}
    IN  IF matched = {} THEN {Bare(kind, Some(label), None)} ELSE matched

\* MERGE (t:Topic {text: $summary_text})
MergeOnText(ns, kind, text) ==
    LET matched == {n \in OfKind(ns, kind) : n.text = Some(text)}
    IN  IF matched = {} THEN {Bare(kind, None, Some(text))} ELSE matched

\* a variant that stamps the node anew each time
SetCreatedAnew(c, id, created_at) ==
    [c EXCEPT !.id = Coalesce(c.id, Some(id)),
              !.created_at = Some(created_at)]

\* SET c.id = coalesce(c.id, $id), c.created_at = coalesce(c.created_at, $created_at)
SetIdCreated(c, id, created_at) ==
    [c EXCEPT !.id = Coalesce(c.id, Some(id)),
              !.created_at = Coalesce(c.created_at, Some(created_at))]

\* the nodes of ns with those of `old` replaced by `new`
Replace(ns, old, new) == (ns \ old) \cup new

(************************** store.py: the queries **************************)
\* create_domain, lines 192-197
CreateDomainQuery(g, label, id, created_at) ==
    LET bound == MergeOnLabel(g.nodes, "Domain", label)
        set == {SetIdCreated(c, id, created_at) : c \in bound}
    IN  Result(Replace(g.nodes, bound, set), g.edges, set)

\* a variant that takes the embedding of the latest call
CreateSummaryOverwriting(g, text, id, created_at, embedding) ==
    LET bound == MergeOnText(g.nodes, "Topic", text)
        set == {[SetIdCreated(t, id, created_at)
                    EXCEPT !.embedding = Coalesce(embedding, t.embedding)] : t \in bound}
    IN  Result(Replace(g.nodes, bound, set), g.edges, set)

\* create_summary, lines 218-224
CreateSummaryQuery(g, text, id, created_at, embedding) ==
    LET bound == MergeOnText(g.nodes, "Topic", text)
        set == {[SetIdCreated(t, id, created_at)
                    EXCEPT !.embedding = Coalesce(t.embedding, embedding)] : t \in bound}
    IN  Result(Replace(g.nodes, bound, set), g.edges, set)

\* a variant that merges on the text, as create_summary does
CreateDetailMerging(g, text, source, id, created_at, embedding) ==
    LET bound == MergeOnText(g.nodes, "Detail", text)
        set == {[SetIdCreated(d, id, created_at)
                    EXCEPT !.source = Some(source),
                           !.insight_pending = Some(TRUE)] : d \in bound}
    IN  Result(Replace(g.nodes, bound, set), g.edges, set)

\* create_detail, lines 140-143
CreateDetailQuery(g, text, source, id, created_at, embedding) ==
    LET d == Node("Detail", Some(id), None, Some(text), Some(source),
                  Some(created_at), embedding, Some(TRUE))
    IN  Result(g.nodes \cup {d}, g.edges, {d})

\* create_insight, lines 248-251
CreateInsightQuery(g, text, id, created_at, embedding) ==
    LET i == Node("Insight", Some(id), None, Some(text), None,
                  Some(created_at), embedding, None)
    IN  Result(g.nodes \cup {i}, g.edges, {i})

\* a variant that leaves the detail unlinked
InsertUnlinked(g, cluster_label, cluster_id, summary_id, summary_text, detail_id, detail_text, source, created_at) ==
    LET bound == MergeOnLabel(g.nodes, "Cluster", cluster_label)
        set == {SetIdCreated(c, cluster_id, created_at) : c \in bound}
        s == Node("Summary", Some(summary_id), None, Some(summary_text), None,
                  Some(created_at), None, None)
        d == Node("Detail", Some(detail_id), None, Some(detail_text), Some(source),
                  Some(created_at), None, None)
    IN  Result(Replace(g.nodes, bound, set) \cup {s, d},
               g.edges \cup {Edge("HAS_SUMMARY", TheVal(c.id), summary_id) : c \in set},
               {[cluster |-> c, summary |-> s, detail |-> d] : c \in set})

\* insert_cluster_summary_detail, lines 106-116: the nodes carry the labels
\* Cluster and Summary and the edge the type HAS_SUMMARY, as written there
InsertQuery(g, cluster_label, cluster_id, summary_id, summary_text, detail_id, detail_text, source, created_at) ==
    LET bound == MergeOnLabel(g.nodes, "Cluster", cluster_label)
        set == {SetIdCreated(c, cluster_id, created_at) : c \in bound}
        s == Node("Summary", Some(summary_id), None, Some(summary_text), None,
                  Some(created_at), None, None)
        d == Node("Detail", Some(detail_id), None, Some(detail_text), Some(source),
                  Some(created_at), None, None)
    IN  Result(Replace(g.nodes, bound, set) \cup {s, d},
               g.edges \cup {Edge("HAS_SUMMARY", TheVal(c.id), summary_id) : c \in set}
                       \cup {Edge("HAS_DETAIL", summary_id, detail_id)},
               {[cluster |-> c, summary |-> s, detail |-> d] : c \in set})

\* MATCH (x:<ka> {id: $a}) MATCH (y:<kb> {id: $b}) MERGE (y)-[:<type>]->(x)
\* link_detail_to_summary 266-271, link_detail_to_insight 277-282,
\* link_insight_to_topic 288-293
LinkQuery(g, type, fromKind, from, toKind, to) ==
    LET pairs == ById(g.nodes, fromKind, from) \X ById(g.nodes, toKind, to)
    IN  Result(g.nodes,
               MergeEdges(g.edges, {Edge(type, TheVal(p[1].id), TheVal(p[2].id)) : p \in pairs}),
               {"ok" : p \in pairs})

\* a variant that merges the Domain before it looks for the Topic
LinkSummaryMergingFirst(g, summary_id, cluster_label, cluster_id, created_at) ==
    LET topics == ById(g.nodes, "Topic", summary_id)
        bound == MergeOnLabel(g.nodes, "Domain", cluster_label)
        set == {SetIdCreated(c, cluster_id, created_at) : c \in bound}
    IN  Result(Replace(g.nodes, bound, set),
               MergeEdges(g.edges, {Edge("HAS_TOPIC", TheVal(c.id), TheVal(t.id)) :
                                       c \in set, t \in topics}),
               {"ok" : c \in set})

\* link_summary_to_cluster, lines 321-328
LinkSummaryToClusterQuery(g, summary_id, cluster_label, cluster_id, created_at) ==
    LET topics == ById(g.nodes, "Topic", summary_id)
        bound == IF topics = {} THEN {} ELSE MergeOnLabel(g.nodes, "Domain", cluster_label)
        set == {SetIdCreated(c, cluster_id, created_at) : c \in bound}
    IN  Result(Replace(g.nodes, bound, set),
               MergeEdges(g.edges, {Edge("HAS_TOPIC", TheVal(c.id), summary_id) : c \in set}),
               {"ok" : c \in set})

\* a variant that reads the flag as it is stored
IsFlagged(d) == d.insight_pending = Some(TRUE)

\* coalesce(d.insight_pending, true) = true, line 335
IsPending(d) == Coalesce(d.insight_pending, Some(TRUE)) = Some(TRUE)

\* list_pending_details, lines 333-338, before LIMIT
PendingDetails(ns) == {d \in OfKind(ns, "Detail") : IsPending(d)}

\* resolve_detail_id, lines 298-303, before LIMIT 1
ResolveMatches(ns, detail_ref) ==
    {d \in OfKind(ns, "Detail") : d.id = Some(detail_ref) \/ d.text = Some(detail_ref)}

\* a variant that toggles the flag instead of clearing it
MarkProcessedToggle(d, processed_at) ==
    [d EXCEPT !.insight_pending = Some(~IsPending(d)),
              !.insight_processed_at = Some(processed_at)]

\* SET d.insight_pending = false, d.insight_processed_at = $processed_at
MarkProcessed(d, processed_at) ==
    [d EXCEPT !.insight_pending = Some(FALSE),
              !.insight_processed_at = Some(processed_at)]

\* mark_detail_insight_processed, lines 349-354
MarkQuery(g, detail_id, processed_at) ==
    LET hit == ById(g.nodes, "Detail", detail_id)
    IN  Result(Replace(g.nodes, hit, {MarkProcessed(d, processed_at) : d \in hit}),
               g.edges, {"ok" : d \in hit})

\* update_insight_text 422-426 / update_topic_text 430-434
UpdateTextQuery(g, kind, id, new_text) ==
    LET hit == ById(g.nodes, kind, id)
    IN  Result(Replace(g.nodes, hit, {[n EXCEPT !.text = Some(new_text)] : n \in hit}),
               g.edges, {"ok" : n \in hit})

(************************ store.py: _expand_query_terms ********************)
FoodTerms ==
    << <<"f","o","o","d">>, <<"e","a","t">>, <<"r","e","s","t","a","u","r","a","n","t">>,
       <<"c","a","f","e">>, <<"d","i","n","n","e","r">>, <<"l","u","n","c","h">>,
       <<"b","r","e","a","k","f","a","s","t">> >>
ShopTerms ==
    << <<"s","h","o","p">>, <<"s","h","o","p","p","i","n","g">>,
       <<"f","a","s","h","i","o","n">>, <<"b","o","u","t","i","q","u","e">>,
       <<"c","l","o","t","h","e","s">>, <<"s","t","y","l","e">> >>
TravelTerms ==
    << <<"t","r","a","v","e","l">>, <<"t","r","i","p">>, <<"v","i","s","i","t">>,
       <<"v","a","c","a","t","i","o","n">>, <<"t","o","u","r">>, <<"h","o","t","e","l">> >>

\* a variant that tells seen terms apart by case
RECURSIVE DedupeExact(_, _)
DedupeExact(terms, seen) ==
    IF terms = <<>> THEN <<>>
    ELSE LET t == Strip(terms[1])
         IN  IF t = <<>> \/ t \in seen
             THEN DedupeExact(Tail(terms), seen)
             ELSE <<t>> \o DedupeExact(Tail(terms), seen \cup {t})

\* lines 480-490: drop blank terms and terms already seen ignoring case
RECURSIVE Dedupe(_, _)
Dedupe(terms, seen) ==
    IF terms = <<>> THEN <<>>
    ELSE LET t == Strip(terms[1])
             key == ToLower(t)
         IN  IF t = <<>> \/ key \in seen
             THEN Dedupe(Tail(terms), seen)
             ELSE <<t>> \o Dedupe(Tail(terms), seen \cup {key})

\* lines 467-491
_expand_query_terms(query_text) ==
    LET base == Strip(query_text)
        lowered == ToLower(base)
        Triggered(family) == \E i \in 1..3 : Contains(lowered, family[i])
    IN  IF base = <<>> THEN <<>>
        ELSE Dedupe(<<base>>
                    \o (IF Triggered(FoodTerms) THEN FoodTerms ELSE <<>>)
                    \o (IF Triggered(ShopTerms) THEN ShopTerms ELSE <<>>)
                    \o (IF Triggered(TravelTerms) THEN TravelTerms ELSE <<>>), {})

(**************************** store.py: retrieve ***************************)
\* toLower(x) CONTAINS toLower($q); a null property makes the test null
LowerContains(prop, term) ==
    prop # None /\ Contains(ToLower(TheVal(prop)), ToLower(term))

\* the WHERE clause of lines 440-448: "true" when there is no term
WhereClause(terms, c, t, d) ==
    \/ terms = <<>>
    \/ \E i \in 1..Len(terms) :
          \/ LowerContains(c.label, terms[i])
          \/ LowerContains(t.text, terms[i])
          \/ d # None /\ LowerContains(TheVal(d).text, terms[i])

\* a variant whose statement MERGEs the Domain it looks for: when no
\* Domain-Topic pair matches, it leaves a Domain behind
RetrieveMerging(g, terms) ==
    LET pairs == {p \in OfKind(g.nodes, "Domain") \X OfKind(g.nodes, "Topic") :
                    /\ p[1].id # None /\ p[2].id # None
                    /\ Edge("HAS_TOPIC", TheVal(p[1].id), TheVal(p[2].id)) \in g.edges}
        made == Node("Domain", None, Some(<<"q">>), None, None, None, None, None)
    IN  IF pairs = {} THEN Result(g.nodes \cup {made}, g.edges, {})
        ELSE Result(g.nodes, g.edges,
                    {[cluster |-> Some(p[1]), summary |-> Some(p[2]), detail |-> None] :
                        p \in pairs})

\* lines 450-457.  The WHERE belongs to the OPTIONAL MATCH: it filters the
\* details of a Domain-Topic pair, and a pair left with no detail still
\* yields one row, with a null detail.
RetrieveQuery(g, terms) ==
    LET pairs == {p \in OfKind(g.nodes, "Domain") \X OfKind(g.nodes, "Topic") :
                    /\ p[1].id # None /\ p[2].id # None
                    /\ Edge("HAS_TOPIC", TheVal(p[1].id), TheVal(p[2].id)) \in g.edges}
        Details(c, t) ==
            {d \in OfKind(g.nodes, "Detail") :
                /\ Edge("HAS_DETAIL", TheVal(t.id), TheVal(d.id)) \in g.edges
                /\ WhereClause(terms, c, t, Some(d))}
        Rows(c, t) ==
            IF Details(c, t) = {}
            THEN {[cluster |-> Some(c), summary |-> Some(t), detail |-> None]}
            ELSE {[cluster |-> Some(c), summary |-> Some(t), detail |-> Some(d)] :
                     d \in Details(c, t)}
    IN  Result(g.nodes, g.edges, UNION {Rows(p[1], p[2]) : p \in pairs})

(************************ store.py: the operations *************************)
\* Every operation is one call on a GraphStore.  Its statement runs in one
\* transaction (age.py, `async with self._engine.begin()`): it either takes
\* effect as a whole or raises and leaves the graph as it was.

EmptyDict == [empty |-> TRUE]
\* `if not rows: return {}` and then rows[0]: the rows come in no stated order
FirstRow(rows) == IF rows = {} THEN {EmptyDict} ELSE rows
Returned(op, args, val) == [op |-> op, ok |-> TRUE, args |-> args, val |-> val]
\* the operation raised: the caller holds no value, only the exception
Raised(op, args) == [op |-> op, ok |-> FALSE, args |-> <<>>, val |-> "error"]

\* the statement committed: the graph is the statement's result
Commit(res) == nodes' = res.nodes /\ edges' = res.edges
\* the statement raised: the transaction is rolled back
Raise(op, args) == nodes' = nodes /\ edges' = edges /\ ret' = Raised(op, args)

\* a variant in which _new_id hands out the ids it handed out before
FreshReusing(k) ==
    /\ clock < MaxClock
    /\ nextId' = k
    /\ clock' = clock + 1

\* _new_id, k times, and _utc_now, once
Fresh(k) ==
    /\ clock < MaxClock
    /\ nextId' = nextId + k
    /\ clock' = clock + 1

\* lines 185-204
create_domain(label) ==
    /\ Fresh(1)
    /\ LET res == CreateDomainQuery(Graph, label, IdStr(nextId + 1), clock)
       IN  \/ /\ Commit(res)
              /\ \E r \in FirstRow(res.rows) : ret' = Returned("create_domain", <<label>>, r)
           \/ Raise("create_domain", <<label>>)
    /\ UNCHANGED label_ready

\* lines 206-234
create_summary(summary_text, embedding) ==
    /\ Fresh(1)
    /\ LET res == CreateSummaryQuery(Graph, summary_text, IdStr(nextId + 1), clock, embedding)
           args == <<summary_text, embedding>>
       IN  \/ /\ Commit(res)
              /\ \E r \in FirstRow(res.rows) : ret' = Returned("create_summary", args, PopEmbedding(r))
           \/ Raise("create_summary", args)
    /\ UNCHANGED label_ready

\* lines 125-153
create_detail(detail_text, source, embedding) ==
    /\ Fresh(1)
    /\ LET res == CreateDetailQuery(Graph, detail_text, source, IdStr(nextId + 1),
                                    clock, embedding)
           args == <<detail_text, source, embedding>>
       IN  \/ /\ Commit(res)
              /\ \E r \in FirstRow(res.rows) : ret' = Returned("create_detail", args, PopEmbedding(r))
           \/ Raise("create_detail", args)
    /\ UNCHANGED label_ready

\* lines 236-261
create_insight(insight_text, embedding) ==
    /\ Fresh(1)
    /\ LET res == CreateInsightQuery(Graph, insight_text, IdStr(nextId + 1), clock, embedding)
           args == <<insight_text, embedding>>
       IN  \/ /\ Commit(res)
              /\ \E r \in FirstRow(res.rows) : ret' = Returned("create_insight", args, PopEmbedding(r))
           \/ Raise("create_insight", args)
    /\ UNCHANGED label_ready

\* lines 88-123
insert_cluster_summary_detail(cluster_label, summary_text, detail_text, source) ==
    /\ Fresh(3)
    /\ LET res == InsertQuery(Graph, cluster_label, IdStr(nextId + 1), IdStr(nextId + 2),
                              summary_text, IdStr(nextId + 3), detail_text, source, clock)
           args == <<cluster_label, summary_text, detail_text, source>>
       IN  \/ /\ Commit(res)
              /\ \E r \in FirstRow(res.rows) : ret' = Returned("insert_cluster_summary_detail", args, r)
           \/ Raise("insert_cluster_summary_detail", args)
    /\ UNCHANGED label_ready

\* lines 347-355
mark_detail_insight_processed(detail_id) ==
    /\ clock < MaxClock
    /\ clock' = clock + 1
    /\ LET res == MarkQuery(Graph, detail_id, clock)
       IN  \/ /\ Commit(res)
              /\ ret' = Returned("mark_detail_insight_processed", <<detail_id>>, "none")
           \/ Raise("mark_detail_insight_processed", <<detail_id>>)
    /\ UNCHANGED <<nextId, label_ready>>

\* lines 428-435
update_topic_text(topic_id, new_text) ==
    /\ LET res == UpdateTextQuery(Graph, "Topic", topic_id, new_text)
       IN  \/ /\ Commit(res)
              /\ ret' = Returned("update_topic_text", <<topic_id, new_text>>, "none")
           \/ Raise("update_topic_text", <<topic_id, new_text>>)
    /\ UNCHANGED <<nextId, clock, label_ready>>

\* lines 420-427
update_insight_text(insight_id, new_text) ==
    /\ LET res == UpdateTextQuery(Graph, "Insight", insight_id, new_text)
       IN  \/ /\ Commit(res)
              /\ ret' = Returned("update_insight_text", <<insight_id, new_text>>, "none")
           \/ Raise("update_insight_text", <<insight_id, new_text>>)
    /\ UNCHANGED <<nextId, clock, label_ready>>

\* lines 436-464
retrieve(query_text, top_k) ==
    /\ LET res == RetrieveQuery(Graph, _expand_query_terms(query_text))
       IN  \/ /\ Commit(res)
              /\ ret' = Returned("retrieve", <<query_text, top_k>>, res.rows)
           \/ Raise("retrieve", <<query_text, top_k>>)
    /\ UNCHANGED <<nextId, clock, label_ready>>

\* The GraphStore an operation is called on: the caller's long-lived instance,
\* or the instance _run_db builds for one call and then drops (insights.py
\* lines 20-24, update.py lines 69-73), whose _label_ready starts empty.
Store == "store"
RunDb == "run_db"

\* _ensure_edge_label, lines 38-54: the priming statement matches nothing
\* (WHERE false) and its failure is swallowed; the label is recorded either way
_ensure_edge_label(self, label) ==
    IF self = Store THEN label_ready' = label_ready \cup {label}
    ELSE UNCHANGED label_ready

\* the statement of a link operation, after priming
LinkOp(op, args, res) ==
    \/ /\ Commit(res)
       /\ ret' = Returned(op, args, "none")
    \/ Raise(op, args)

\* lines 263-272
link_detail_to_summary(self, detail_id, summary_id) ==
    /\ _ensure_edge_label(self, "HAS_DETAIL")
    /\ LinkOp("link_detail_to_summary", <<detail_id, summary_id>>,
              LinkQuery(Graph, "HAS_DETAIL", "Topic", summary_id, "Detail", detail_id))
    /\ UNCHANGED <<nextId, clock>>

\* lines 274-283
link_detail_to_insight(self, detail_id, insight_id) ==
    /\ _ensure_edge_label(self, "SUPPORTS_DETAIL")
    /\ LinkOp("link_detail_to_insight", <<detail_id, insight_id>>,
              LinkQuery(Graph, "SUPPORTS_DETAIL", "Insight", insight_id, "Detail", detail_id))
    /\ UNCHANGED <<nextId, clock>>

\* lines 285-294
link_insight_to_topic(self, insight_id, topic_id) ==
    /\ _ensure_edge_label(self, "HAS_INSIGHT")
    /\ LinkOp("link_insight_to_topic", <<insight_id, topic_id>>,
              LinkQuery(Graph, "HAS_INSIGHT", "Topic", topic_id, "Insight", insight_id))
    /\ UNCHANGED <<nextId, clock>>

\* lines 312-329
link_summary_to_cluster(self, summary_id, cluster_label) ==
    /\ _ensure_edge_label(self, "HAS_TOPIC")
    /\ Fresh(1)
    /\ LinkOp("link_summary_to_cluster", <<summary_id, cluster_label>>,
              LinkSummaryToClusterQuery(Graph, summary_id, cluster_label,
                                        IdStr(nextId + 1), clock))

\* {id: d.id, text: d.text}
IdText(n) == [id |-> n.id, text |-> n.text]

\* the sequences that list each element of S once: rows come in no stated order
Orderings(S) ==
    {q \in [1..Cardinality(S) -> S] : \A i, j \in DOMAIN q : i # j => q[i] # q[j]}

\* LIMIT $k over rows in no stated order
Limited(S, k) ==
    {T \in SUBSET S : Cardinality(T) = IF Cardinality(S) < k THEN Cardinality(S) ELSE k}

\* list_pending_details, lines 331-345: what it may return
PendingLists(ns, limit) ==
    UNION {Orderings({IdText(d) : d \in T}) : T \in Limited(PendingDetails(ns), limit)}

list_pending_details(limit) ==
    /\ \/ \E rows \in PendingLists(nodes, limit) :
             ret' = Returned("list_pending_details", <<limit>>, rows)
       \/ ret' = Raised("list_pending_details", <<limit>>)
    /\ UNCHANGED <<nodes, edges, nextId, clock, label_ready>>

\* resolve_detail_id, lines 296-310: LIMIT 1 keeps any one of the matches
Resolved(ns, detail_ref) ==
    IF ResolveMatches(ns, detail_ref) = {} THEN {None}
    ELSE {d.id : d \in ResolveMatches(ns, detail_ref)}

resolve_detail_id(detail_ref) ==
    /\ \/ \E r \in Resolved(nodes, detail_ref) :
             ret' = Returned("resolve_detail_id", <<detail_ref>>, r)
       \/ ret' = Raised("resolve_detail_id", <<detail_ref>>)
    /\ UNCHANGED <<nodes, edges, nextId, clock, label_ready>>

\* get_detail_context, lines 357-387
DetailContext(g, detail_id) ==
    LET Topics(d) == {t \in OfKind(g.nodes, "Topic") :
                        Edge("HAS_DETAIL", TheVal(t.id), TheVal(d.id)) \in g.edges}
        Domains(d) == {c \in OfKind(g.nodes, "Domain") :
                        \E t \in Topics(d) :
                            Edge("HAS_TOPIC", TheVal(c.id), TheVal(t.id)) \in g.edges}
    IN  {[detail |-> PopEmbedding(d),
          topics |-> {PopEmbedding(t) : t \in Topics(d)},
          domains |-> {PopEmbedding(c) : c \in Domains(d)}] :
            d \in ById(g.nodes, "Detail", detail_id)}

\* lines 357-387: `if not rows: return {}`, else the first row
get_detail_context(detail_id) ==
    /\ LET rows == DetailContext(Graph, detail_id)
       IN  \/ \E r \in FirstRow(rows) :
                 ret' = Returned("get_detail_context", <<detail_id>>, r)
           \/ ret' = Raised("get_detail_context", <<detail_id>>)
    /\ UNCHANGED <<nodes, edges, nextId, clock, label_ready>>

\* list_insights_for_topics, lines 389-404
InsightsForTopics(g, topic_ids) ==
    {IdText(i) : i \in {i \in OfKind(g.nodes, "Insight") :
        \E t \in OfKind(g.nodes, "Topic") :
            /\ t.id # None /\ TheVal(t.id) \in topic_ids
            /\ Edge("HAS_INSIGHT", TheVal(t.id), TheVal(i.id)) \in g.edges}}

(************************* insights.py: the tools **************************)
\* Each tool runs its store calls through _run_db: a new client and store,
\* ensure_graph, the calls, close.  Any of these may raise; the tool then
\* raises and the graph is as it was.

\* mark_detail_processed, lines 174-188: resolve the reference, then mark
mark_detail_processed(detail_ref) ==
    /\ clock < MaxClock
    /\ \/ \E r \in Resolved(nodes, detail_ref) :
            /\ IF r = None
               THEN nodes' = nodes /\ edges' = edges /\ clock' = clock
               ELSE Commit(MarkQuery(Graph, TheVal(r), clock)) /\ clock' = clock + 1
            /\ ret' = Returned("mark_detail_processed", <<detail_ref>>, r)
       \/ Raise("mark_detail_processed", <<detail_ref>>) /\ clock' = clock
    /\ UNCHANGED <<nextId, label_ready>>

\* link_insight_detail, lines 157-172
link_insight_detail(insight_id, detail_ref) ==
    \/ \E r \in Resolved(nodes, detail_ref) :
          IF r = None
          THEN /\ ret' = Returned("link_insight_detail", <<insight_id, detail_ref>>, r)
               /\ UNCHANGED <<nodes, edges, nextId, clock, label_ready>>
          ELSE link_detail_to_insight(RunDb, TheVal(r), insight_id)
    \/ /\ Raise("link_insight_detail", <<insight_id, detail_ref>>)
       /\ UNCHANGED <<nextId, clock, label_ready>>

(********************* insights.py: generate_insights **********************)
RunIds == {1, 2}

IdleRun ==
    [pc |-> "idle", pending |-> <<>>, idx |-> 0, processed |-> 0, errors |-> 0,
     details |-> <<>>, tools |-> 0, exc |-> "none"]

Item(r) == runs[r].pending[runs[r].idx]
DetailId(r) == TheVal(Item(r).id)

\* the for loop of line 206: the next item, or `return summary`
NextItem(run) ==
    [run EXCEPT !.idx = run.idx + 1,
                !.pc = IF run.idx + 1 > Len(run.pending) THEN "returned" ELSE "ctx"]

\* lines 204-205: summary = {...}; pending = list_pending_details(limit).
\* A raise here leaves generate_insights.
Start(r, limit) ==
    /\ runs[r].pc \in {"idle", "returned", "raised"}
    /\ \/ \E rows \in PendingLists(nodes, limit) :
            runs' = [runs EXCEPT ![r] = NextItem([IdleRun EXCEPT !.pending = rows])]
       \/ runs' = [runs EXCEPT ![r] = [IdleRun EXCEPT !.pc = "raised", !.exc = "list"]]
    /\ UNCHANGED <<nodes, edges, nextId, clock, ret, label_ready, calls, handled>>

\* lines 207-211: skip an item without id; get_detail_context(detail_id)
Ctx(r) ==
    /\ runs[r].pc = "ctx"
    /\ IF Item(r).id = None
       THEN runs' = [runs EXCEPT ![r] = NextItem(runs[r])]
       ELSE \/ runs' = [runs EXCEPT ![r].pc = "insights"]
            \/ runs' = [runs EXCEPT ![r].pc = "handler"]
    /\ UNCHANGED <<nodes, edges, nextId, clock, ret, label_ready, calls, handled>>

\* lines 212-214: list_insights_for_topics(topic_ids)
Insights(r) ==
    /\ runs[r].pc = "insights"
    /\ \/ runs' = [runs EXCEPT ![r].pc = "agent", ![r].tools = 0]
       \/ runs' = [runs EXCEPT ![r].pc = "handler"]
    /\ UNCHANGED <<nodes, edges, nextId, clock, ret, label_ready, calls, handled>>

\* line 230, agent.run: the Reasoner calls one of its tools
AgentTool(r, tool) ==
    /\ runs[r].pc = "agent"
    /\ runs[r].tools < MaxTools
    /\ tool
    /\ runs' = [runs EXCEPT ![r].tools = @ + 1]
    /\ UNCHANGED <<calls, handled>>

\* line 230: agent.run returns its response
AgentReturns(r) ==
    /\ runs[r].pc = "agent"
    /\ runs' = [runs EXCEPT ![r].pc = "mark"]
    /\ UNCHANGED <<nodes, edges, nextId, clock, ret, label_ready, calls, handled>>

\* line 230: agent.run raises
AgentRaises(r) ==
    /\ runs[r].pc = "agent"
    /\ runs' = [runs EXCEPT ![r].pc = "handler"]
    /\ UNCHANGED <<nodes, edges, nextId, clock, ret, label_ready, calls, handled>>

\* lines 231-234: mark_detail_processed(detail_id), then count the detail
Counted(run, field, entry) ==
    NextItem([run EXCEPT ![field] = @ + 1, !.details = Append(@, entry)])

Mark(r) ==
    /\ runs[r].pc = "mark"
    /\ mark_detail_processed(DetailId(r))
    /\ IF ret'.ok
       THEN /\ runs' = [runs EXCEPT ![r] = Counted(runs[r], "processed",
                            [detail_id |-> DetailId(r), error |-> FALSE])]
            /\ handled' = handled \cup {DetailId(r)}
       ELSE /\ runs' = [runs EXCEPT ![r].pc = "handler"]
            /\ handled' = handled
    /\ UNCHANGED calls

\* lines 235-238, the except clause: mark_detail_processed(detail_id) again,
\* outside any try; a raise here leaves generate_insights
Handler(r) ==
    /\ runs[r].pc = "handler"
    /\ mark_detail_processed(DetailId(r))
    /\ IF ret'.ok
       THEN /\ runs' = [runs EXCEPT ![r] = Counted(runs[r], "errors",
                            [detail_id |-> DetailId(r), error |-> TRUE])]
            /\ handled' = handled \cup {DetailId(r)}
       ELSE /\ runs' = [runs EXCEPT ![r].pc = "raised", ![r].exc = "handler"]
            /\ handled' = handled
    /\ UNCHANGED calls

(************* store.py: insert_cluster_summary_detail, in steps ***********)
Callers == {1, 2}
IdleCall == [pc |-> "idle"]

\* lines 95-105: the timestamp and the three ids are drawn before the query
InsertBegin(c, cluster_label, summary_text, detail_text, source) ==
    /\ calls[c].pc = "idle"
    /\ Fresh(3)
    /\ calls' = [calls EXCEPT ![c] =
            [pc |-> "ready", cluster_label |-> cluster_label,
             cluster_id |-> IdStr(nextId + 1), summary_id |-> IdStr(nextId + 2),
             summary_text |-> summary_text, detail_id |-> IdStr(nextId + 3),
             detail_text |-> detail_text, source |-> source, created_at |-> clock]]
    /\ UNCHANGED <<nodes, edges, ret, label_ready, runs, handled>>

\* line 117: the statement, one transaction
InsertExecute(c) ==
    /\ calls[c].pc = "ready"
    /\ LET p == calls[c]
           res == InsertQuery(Graph, p.cluster_label, p.cluster_id, p.summary_id,
                              p.summary_text, p.detail_id, p.detail_text, p.source,
                              p.created_at)
           args == <<p.cluster_label, p.summary_text, p.detail_text, p.source>>
       IN  \/ /\ Commit(res)
              /\ \E r \in FirstRow(res.rows) :
                    ret' = Returned("insert_cluster_summary_detail", args, r)
              /\ calls' = [calls EXCEPT ![c].pc = "done"]
           \/ /\ Raise("insert_cluster_summary_detail", args)
              /\ calls' = [calls EXCEPT ![c].pc = "failed"]
    /\ UNCHANGED <<nextId, clock, label_ready, runs, handled>>

(****************************** the inputs *********************************)
\* raw domain labels: three that normalize to "A", one that does not
Labels == {<<"a">>, <<"A">>, <<" ", "a">>, <<"b">>}
TopicTexts == {<<"u", "t", "s">>, <<"b">>}
PlainTexts == {<<"u", "t", "d">>}
Queries == {<<"u", "t">>, <<" ">>}
Sources == {<<"c", "l", "i">>}
InsightTexts == {<<"g">>}
Limits == {1, 2}
\* a string that is no node's id and no node's text
Unknown == <<"x">>
IdsOf(kind) == {TheVal(n.id) : n \in OfKind(nodes, kind)}
TextsOf(kind) == {TheVal(n.text) : n \in OfKind(nodes, kind)}
\* an id argument: the id of a node of the kind the operation looks for, or a
\* string that matches none (an id of another kind matches none either)
Refs(kind) == IdsOf(kind) \cup {Unknown}
\* a new detail's text: a plain text, or the id of a detail its author has seen
DetailTexts == PlainTexts \cup IdsOf("Detail")
\* a detail reference (resolve_detail_id): an id, a text, or neither
DetailRefs == IdsOf("Detail") \cup TextsOf("Detail") \cup {Unknown}

\* the relation types the link operations prime
EdgeLabels == {"HAS_TOPIC", "HAS_DETAIL", "HAS_INSIGHT", "SUPPORTS_DETAIL"}
\* the graph name of a deployment (cli.py: MEMORY_GRAPH), a valid identifier
DefaultGraph == <<"g">>
\* graph names a GraphStore may be built with: three identifiers, then names
\* that start with a digit, hold a dash, end with a space, or are empty
Names == {DefaultGraph, <<"_", "g", "1">>, <<"G", "_">>,
          <<"1", "g">>, <<"g", "-", "x">>, <<"g", " ">>, <<>>}
Procs == {1, 2, 3}
IdleStart == [pc |-> "idle", calls |-> 0, error |-> <<>>]
NoRun == [seen |-> <<>>, sleeps |-> <<>>]
\* no call of the retrieval engine is at hand
NoRequest == [fn |-> "none"]

\* an empty graph
GraphInit ==
    /\ nodes = {}
    /\ edges = {}
    /\ nextId = 0
    /\ clock = 1
    /\ ret = Returned("init", <<>>, "none")
    /\ label_ready = {}
    /\ runs = [r \in RunIds |-> IdleRun]
    /\ handled = {}
    /\ calls = [c \in Callers |-> IdleCall]

\* a database that answers every statement, holding the graph already
HealthyDb ==
    /\ faults = <<>>
    /\ execs = NoRun
    /\ catalog = [n \in Names |-> IF n = DefaultGraph THEN 1 ELSE 0]
    /\ starters = [p \in Procs |-> IdleStart]
    /\ graph_name = DefaultGraph
    /\ sent = {}
    /\ primed = [l \in EdgeLabels |-> 0]

DbInit == HealthyDb /\ request = NoRequest

Init == GraphInit /\ DbInit

(***************** store.py: _execute_cypher_with_retry *********************)
\* How one execution of a statement ends: Ok, or the message of the
\* exception (str(exc)), a sequence of words.
Ok == <<"ok">>
DuplicateTable == <<"ProgrammingError", "DuplicateTableError", "relation", "already", "exists">>
EntityConflict == <<"InternalServerError", "Entity", "failed", "to", "be", "updated">>
SyntaxFailure == <<"ProgrammingError", "syntax", "error">>
\* holds some words of a race message, but not the phrase
EntityMissing == <<"Entity", "failed", "to", "be", "found">>
Outcomes == {Ok, DuplicateTable, EntityConflict, SyntaxFailure, EntityMissing}

\* the outcome of the n-th execution from now: past the end of the known
\* faults the database answers
Outcome(sched, n) == IF n <= Len(sched) THEN sched[n] ELSE Ok

\* a variant that takes every failure for a race
AlwaysTransient(message) == TRUE

\* line 32
IsTransient(message) ==
    \/ Contains(message, <<"DuplicateTableError">>)
    \/ Contains(message, <<"Entity", "failed", "to", "be", "updated">>)

\* what an executor run leaves: whether it returned, the error it raised,
\* the outcomes of its executions and its sleeps, in tenths of a second
Ran(ok, error, seen, sleeps) == [ok |-> ok, error |-> error, seen |-> seen, sleeps |-> sleeps]

\* age.py execute_cypher, lines 47-54: one execution
execute_cypher(sched) ==
    LET o == Outcome(sched, 1)
    IN  Ran(o = Ok, o, <<o>>, <<>>)

\* a variant without the execution of line 36: the third failure is raised
RECURSIVE RetryThrice(_, _, _)
RetryThrice(sched, attempt, run) ==
    LET o == Outcome(sched, Len(run.seen) + 1)
        seen == Append(run.seen, o)
    IN  IF attempt = Attempts - 1
        THEN Ran(o = Ok, o, seen, run.sleeps)
        ELSE IF o = Ok THEN Ran(TRUE, o, seen, run.sleeps)
        ELSE IF IsTransient(o)
             THEN RetryThrice(sched, attempt + 1,
                              [seen |-> seen, sleeps |-> Append(run.sleeps, attempt + 1)])
             ELSE Ran(FALSE, o, seen, run.sleeps)

\* lines 27-36: `for attempt in range(3)`, then the statement of line 36
RECURSIVE RetryLoop(_, _, _)
RetryLoop(sched, attempt, run) ==
    LET o == Outcome(sched, Len(run.seen) + 1)
        seen == Append(run.seen, o)
    IN  IF attempt = Attempts
        THEN Ran(o = Ok, o, seen, run.sleeps)
        ELSE IF o = Ok THEN Ran(TRUE, o, seen, run.sleeps)
        ELSE IF IsTransient(o)
             THEN RetryLoop(sched, attempt + 1,
                            [seen |-> seen, sleeps |-> Append(run.sleeps, attempt + 1)])
             ELSE Ran(FALSE, o, seen, run.sleeps)

\* lines 25-36
_execute_cypher_with_retry(sched) == RetryLoop(sched, 0, NoRun)

\* the faults left once a run has used up its executions
Rest(sched, ran) == SubSeq(sched, Len(ran.seen) + 1, Len(sched))

\* a caller runs one statement through the wrapper
RunWithRetry ==
    /\ execs = NoRun
    /\ LET ran == _execute_cypher_with_retry(faults)
       IN  /\ execs' = ran
           /\ faults' = Rest(faults, ran)
           /\ ret' = IF ran.ok THEN Returned("_execute_cypher_with_retry", <<>>, "rows")
                     ELSE Raised("_execute_cypher_with_retry", <<>>)
    /\ UNCHANGED <<nodes, edges, nextId, clock, label_ready, procVars,
                   catalog, starters, graph_name, request, sent, primed>>

(************** store.py: which executor an operation uses *****************)
\* the operations whose statement goes through _execute_cypher_with_retry
\* (lines 144, 198, 225, 252, 272, 283, 294, 329); the others call
\* AgeClient.execute_cypher themselves (lines 117, 355, 427, 435, ...)
RetriedOps ==
    {"create_detail", "create_domain", "create_summary", "create_insight",
     "link_detail_to_summary", "link_detail_to_insight", "link_insight_to_topic",
     "link_summary_to_cluster"}

RunStatement(op, sched) ==
    IF op \in RetriedOps THEN _execute_cypher_with_retry(sched) ELSE execute_cypher(sched)

\* _ensure_edge_label, line 39: the priming statement is issued unless this
\* store instance has recorded the label
PrimingIssued(self, label) == self = RunDb \/ label \notin label_ready

\* lines 49-53: the priming statement is one execution, its failure ignored
AfterPriming(self, label, sched) ==
    IF PrimingIssued(self, label) THEN Rest(sched, execute_cypher(sched)) ELSE sched

\* The operation of this step ran its statement against the database: it
\* returns if the executor's run ended well and raises if not.
Executed(sched) ==
    LET ran == RunStatement(ret'.op, sched)
    IN  /\ ret'.ok = ran.ok
        /\ execs' = ran
        /\ faults' = Rest(sched, ran)

\* a statement on its way to the database, and the graph name it carries
Statement(stmt, name) == [stmt |-> stmt, name |-> name]

\* age.py execute_cypher, lines 38-49: the operation of this step called it.
\* A graph name that is no identifier raises ValueError before anything is
\* sent; otherwise the statement is sent, naming the graph.
Validated ==
    IF IsIdentifier(graph_name)
    THEN sent' = sent \cup {Statement("cypher", graph_name)}
    ELSE sent' = sent /\ ~ret'.ok

\* the statements sent for the call (op, args)
SentFor(op, args) == {st \in sent : st.stmt = op /\ st.args = args}

\* The operation of this step sent its statement. The history keeps the
\* latest link call, with the number of times it was made in a row.
Logged ==
    LET before == {st.nth : st \in SentFor(ret'.op, ret'.args)}
    IN  /\ \A n \in before : n < MaxRepeats
        /\ sent' = {[stmt |-> ret'.op, args |-> ret'.args, name |-> graph_name,
                     nth |-> IF before = {} THEN 1 ELSE (CHOOSE n \in before : TRUE) + 1]}

\* another transaction gets in the way of the next execution
Disturb(message) ==
    /\ faults = <<>>
    /\ faults' = <<message>>
    /\ UNCHANGED <<nodes, edges, nextId, clock, ret, label_ready, procVars,
                   execs, catalog, starters, graph_name, request, sent, primed>>

(************************ store.py: ensure_graph ***************************)
\* An error message is the sequence of its words; `phrase in message` holds
\* when the words of the phrase occur in it, adjacent and in order.
AlreadyExists == <<"graph", "g", "already", "exists">>
DuplicateKey == <<"duplicate", "key", "value", "violates", "unique", "constraint">>
\* what create_graph raises for a name the catalog holds: the function's own
\* check, or the unique index when another transaction committed first
ExistsErrors == {AlreadyExists, DuplicateKey}

\* what create_graph may raise for a name it does not accept (the database
\* decides which names it accepts; the client does not check, lines 68-71)
InvalidName == <<"graph", "name", "is", "invalid">>

\* a variant that takes no error of create_graph for success
NeverBenign(message) == FALSE

\* lines 73-75
BenignCreateError(message) ==
    \/ Contains(message, <<"already", "exists">>)
    \/ Contains(message, <<"duplicate", "key">>)

\* lines 61-66: the catalog check; a process may call ensure_graph again
EnsureCheck(p) ==
    /\ starters[p].pc \in {"idle", "returned"}
    /\ starters[p].calls < MaxCalls
    /\ sent' = sent \cup {Statement("count", graph_name)}
    /\ starters' = [starters EXCEPT
            ![p] = [pc |-> IF catalog[graph_name] > 0 THEN "returned" ELSE "create",
                    calls |-> @.calls + 1, error |-> <<>>]]
    /\ UNCHANGED <<nodes, edges, nextId, clock, ret, label_ready, procVars,
                   faults, execs, catalog, graph_name, request, primed>>

\* lines 67-76: create_graph, and what is made of its error
EnsureCreate(p) ==
    /\ starters[p].pc = "create"
    /\ sent' = sent \cup {Statement("create_graph", graph_name)}
    /\ IF catalog[graph_name] = 0
       THEN \/ /\ catalog' = [catalog EXCEPT ![graph_name] = 1]
               /\ starters' = [starters EXCEPT ![p].pc = "returned"]
            \/ /\ ~IsIdentifier(graph_name)
               /\ catalog' = catalog
               /\ starters' = [starters EXCEPT
                      ![p].pc = IF BenignCreateError(InvalidName) THEN "returned" ELSE "raised",
                      ![p].error = InvalidName]
       ELSE /\ catalog' = catalog
            /\ \E message \in ExistsErrors :
                  starters' = [starters EXCEPT
                      ![p].pc = IF BenignCreateError(message) THEN "returned" ELSE "raised",
                      ![p].error = message]
    /\ UNCHANGED <<nodes, edges, nextId, clock, ret, label_ready, procVars,
                   faults, execs, graph_name, request, primed>>

(********************* update.py: update_from_detail ***********************)
DEFAULT_DOMAINS ==
    << <<"R","e","a","l","i","s","t","i","c">>,
       <<"I","n","v","e","s","t","i","g","a","t","i","v","e">>,
       <<"A","r","t","i","s","t","i","c">>,
       <<"S","o","c","i","a","l">>,
       <<"E","n","t","e","r","p","r","i","s","i","n","g">>,
       <<"C","o","n","v","e","n","t","i","o","n","a","l">> >>

\* _seed_domains, lines 99-111: one turn of its loop.  The label is
\* normalized, and a create_domain that raises is ignored.
_seed_domains(i) ==
    /\ Fresh(1)
    /\ LET label == _normalize_label(DEFAULT_DOMAINS[i])
           res == CreateDomainQuery(Graph, label, IdStr(nextId + 1), clock)
       IN  /\ Commit(res) \/ UNCHANGED <<nodes, edges>>
           /\ ret' = Returned("_seed_domains", <<label>>, "none")
    /\ UNCHANGED label_ready

\* the link_topic_domain tool, lines 168-180: the label is normalized
link_topic_domain(topic_id, domain_label) ==
    link_summary_to_cluster(RunDb, topic_id, _normalize_label(domain_label))

\* _seed_domains, lines 99-111, the whole loop from the i-th label on: the
\* turns in `failed` are those whose create_domain raised, which is ignored.
\* The six timestamps fall within one tick of the clock.
RECURSIVE SeedFrom(_, _, _, _)
SeedFrom(g, i, id, failed) ==
    IF i > Len(DEFAULT_DOMAINS) THEN g
    ELSE LET res == CreateDomainQuery(g, _normalize_label(DEFAULT_DOMAINS[i]),
                                      IdStr(id + i), clock)
         IN  SeedFrom(IF i \in failed THEN g ELSE [nodes |-> res.nodes, edges |-> res.edges],
                      i + 1, id, failed)

\* update_from_detail, lines 92-113: the call seeds the domains, or raises
\* when _run_db does
UpdateBegin(detail_text) ==
    /\ request = NoRequest
    /\ \/ /\ Fresh(Len(DEFAULT_DOMAINS))
          /\ \E failed \in SUBSET (1..Len(DEFAULT_DOMAINS)) :
                LET g == SeedFrom(Graph, 1, nextId, failed)
                IN  nodes' = g.nodes /\ edges' = g.edges
          /\ ret' = Returned("_seed_domains", <<>>, "none")
          /\ request' = [fn |-> "update_from_detail", detail_text |-> detail_text, tools |-> 0]
       \/ /\ Raise("update_from_detail", <<detail_text>>)
          /\ UNCHANGED <<nextId, clock, request>>
    /\ UNCHANGED label_ready

\* line 237, agent.run: the Reasoner calls one of the tools of lines 183-191
UpdateTool(tool) ==
    /\ request.fn = "update_from_detail"
    /\ request.tools < MaxTools
    /\ tool
    /\ request' = [request EXCEPT !.tools = @ + 1]

\* line 237: agent.run raises, and update_from_detail with it
UpdateRaises ==
    /\ request.fn = "update_from_detail"
    /\ ret' = Raised("update_from_detail", <<>>)
    /\ request' = NoRequest
    /\ UNCHANGED <<nodes, edges, nextId, clock, label_ready>>

\* lines 237-241: agent.run returns, and update_from_detail returns {"ok": True}
UpdateReturns ==
    /\ request.fn = "update_from_detail"
    /\ ret' = Returned("update_from_detail", <<request.detail_text>>, "ok")
    /\ request' = NoRequest
    /\ UNCHANGED <<nodes, edges, nextId, clock, label_ready>>

(************** details, and generate_insights over them *******************)
\* the tools of lines 190-200 that write, with any arguments
ReasonerTool ==
    \/ \E ref \in DetailRefs : mark_detail_processed(ref)
    \/ \E t \in InsightTexts : create_insight(t, None)
    \/ \E i \in Refs("Insight"), t \in InsightTexts : update_insight_text(i, t)
    \/ \E i \in Refs("Insight"), t \in Refs("Topic") : link_insight_to_topic(RunDb, i, t)
    \/ \E i \in Refs("Insight"), ref \in DetailRefs : link_insight_detail(i, ref)

PipelineNext ==
    \/ \E t \in DetailTexts, src \in Sources :
          create_detail(t, src, None) /\ UNCHANGED <<procVars, dbVars>>
    \/ \E l \in {<<"a">>}, t \in {<<"b">>}, d \in PlainTexts, src \in Sources :
          insert_cluster_summary_detail(l, t, d, src) /\ UNCHANGED <<procVars, dbVars>>
    \/ \E id \in Refs("Detail") : mark_detail_insight_processed(id) /\ UNCHANGED <<procVars, dbVars>>
    \/ \E k \in Limits : Start(1, k) /\ UNCHANGED dbVars
    \/ Ctx(1) /\ UNCHANGED dbVars
    \/ Insights(1) /\ UNCHANGED dbVars
    \/ AgentTool(1, ReasonerTool) /\ UNCHANGED dbVars
    \/ AgentReturns(1) /\ UNCHANGED dbVars
    \/ AgentRaises(1) /\ UNCHANGED dbVars
    \/ Mark(1) /\ UNCHANGED dbVars
    \/ Handler(1) /\ UNCHANGED dbVars

PipelineSpec == Init /\ [][PipelineNext]_vars

(**************** two generate_insights runs on one graph ******************)
TwoRunsNext ==
    \/ \E t \in PlainTexts, src \in Sources :
          create_detail(t, src, None) /\ UNCHANGED <<procVars, dbVars>>
    \/ \E r \in RunIds, k \in Limits : Start(r, k) /\ UNCHANGED dbVars
    \/ \E r \in RunIds : Ctx(r) /\ UNCHANGED dbVars
    \/ \E r \in RunIds : Insights(r) /\ UNCHANGED dbVars
    \/ \E r \in RunIds : AgentReturns(r) /\ UNCHANGED dbVars
    \/ \E r \in RunIds : AgentRaises(r) /\ UNCHANGED dbVars
    \/ \E r \in RunIds : Mark(r) /\ UNCHANGED dbVars
    \/ \E r \in RunIds : Handler(r) /\ UNCHANGED dbVars

TwoRunsSpec == Init /\ [][TwoRunsNext]_vars

(***************** update_from_detail with any Reasoner ********************)
updVars == <<procVars, faults, execs, catalog, starters, graph_name, sent, primed>>

\* the tools of lines 183-191 that write, with any arguments
OrganizerTool ==
    \/ \E t \in PlainTexts, src \in Sources : create_detail(t, src, None)
    \/ \E t \in {<<"b">>} : create_summary(t, None)
    \/ \E id \in Refs("Topic"), t \in {<<"b">>} : update_topic_text(id, t)
    \/ \E id \in Refs("Topic"), l \in {<<"s", "o", "c", "i", "a", "l">>} :
          link_topic_domain(id, l)
    \/ \E d \in Refs("Detail"), t \in Refs("Topic") : link_detail_to_summary(RunDb, d, t)

UpdateNext ==
    \/ \E t \in PlainTexts : UpdateBegin(t) /\ UNCHANGED updVars
    \/ UpdateTool(OrganizerTool) /\ UNCHANGED updVars
    \/ UpdateRaises /\ UNCHANGED updVars
    \/ UpdateReturns /\ UNCHANGED updVars

UpdateSpec == Init /\ [][UpdateNext]_vars

(************ domains and topics, written and then retrieved ***************)
StoreNext ==
    \/ \E l \in Labels : create_domain(l) /\ UNCHANGED <<procVars, dbVars>>
    \/ \E i \in DOMAIN DEFAULT_DOMAINS : _seed_domains(i) /\ UNCHANGED <<procVars, dbVars>>
    \/ \E t \in TopicTexts : create_summary(t, None) /\ UNCHANGED <<procVars, dbVars>>
    \/ \E id \in Refs("Topic"), t \in TopicTexts :
          update_topic_text(id, t) /\ UNCHANGED <<procVars, dbVars>>
    \/ \E id \in Refs("Topic"), l \in Labels :
          link_summary_to_cluster(Store, id, l) /\ UNCHANGED <<procVars, dbVars>>
    \/ \E id \in Refs("Topic"), l \in Labels :
          link_topic_domain(id, l) /\ UNCHANGED <<procVars, dbVars>>
    \/ \E l \in Labels, t \in TopicTexts, d \in PlainTexts, src \in Sources :
          insert_cluster_summary_detail(l, t, d, src) /\ UNCHANGED <<procVars, dbVars>>
    \/ \E d \in Refs("Detail"), t \in Refs("Topic") :
          link_detail_to_summary(Store, d, t) /\ UNCHANGED <<procVars, dbVars>>
    \/ \E q \in Queries, k \in Limits : retrieve(q, k) /\ UNCHANGED <<procVars, dbVars>>

StoreSpec == Init /\ [][StoreNext]_vars

(********** two callers of insert_cluster_summary_detail at once ***********)
RaceNext ==
    \/ \E c \in Callers, l \in Labels, t \in TopicTexts, d \in PlainTexts, src \in Sources :
          InsertBegin(c, l, t, d, src) /\ UNCHANGED dbVars
    \/ \E c \in Callers : InsertExecute(c) /\ UNCHANGED dbVars

RaceSpec == Init /\ [][RaceNext]_vars

(***************** every operation that creates or merges ******************)
IdNext ==
    \/ \E l \in {<<"a">>, <<"A">>} : create_domain(l) /\ UNCHANGED <<procVars, dbVars>>
    \/ \E t \in TopicTexts : create_summary(t, None) /\ UNCHANGED <<procVars, dbVars>>
    \/ \E t \in PlainTexts, src \in Sources :
          create_detail(t, src, None) /\ UNCHANGED <<procVars, dbVars>>
    \/ \E t \in InsightTexts : create_insight(t, None) /\ UNCHANGED <<procVars, dbVars>>
    \/ \E id \in Refs("Topic"), t \in TopicTexts :
          update_topic_text(id, t) /\ UNCHANGED <<procVars, dbVars>>
    \/ \E id \in Refs("Topic"), l \in {<<"a">>, <<"A">>} :
          link_summary_to_cluster(Store, id, l) /\ UNCHANGED <<procVars, dbVars>>
    \/ \E l \in {<<"a">>}, t \in TopicTexts, d \in PlainTexts, src \in Sources :
          insert_cluster_summary_detail(l, t, d, src) /\ UNCHANGED <<procVars, dbVars>>

IdSpec == Init /\ [][IdNext]_vars

(******************* nodes with embeddings, read back ***********************)
\* an embedding vector (embeddings.py embed_text), or none
Embeddings == {None, Some(<<1, 0>>)}

EmbedNext ==
    \/ \E t \in {<<"b">>}, e \in Embeddings :
          create_summary(t, e) /\ UNCHANGED <<procVars, dbVars>>
    \/ \E t \in PlainTexts, src \in Sources, e \in Embeddings :
          create_detail(t, src, e) /\ UNCHANGED <<procVars, dbVars>>
    \/ \E t \in InsightTexts, e \in Embeddings :
          create_insight(t, e) /\ UNCHANGED <<procVars, dbVars>>
    \/ \E id \in Refs("Topic"), l \in {<<"a">>} :
          link_summary_to_cluster(Store, id, l) /\ UNCHANGED <<procVars, dbVars>>
    \/ \E d \in Refs("Detail"), t \in Refs("Topic") :
          link_detail_to_summary(Store, d, t) /\ UNCHANGED <<procVars, dbVars>>
    \/ \E d \in Refs("Detail") : get_detail_context(d) /\ UNCHANGED <<procVars, dbVars>>
    \/ \E q \in Queries, k \in Limits : retrieve(q, k) /\ UNCHANGED <<procVars, dbVars>>

EmbedSpec == Init /\ [][EmbedNext]_vars

(******************** processes starting at once ***************************)
\* a database that holds no graph of the name yet, or holds it already
EnsureInit ==
    /\ GraphInit
    /\ faults = <<>>
    /\ execs = NoRun
    /\ graph_name \in {n \in Names : IsIdentifier(n)}
    /\ request = NoRequest
    /\ \E had \in {0, 1} : catalog = [n \in Names |-> IF n = graph_name THEN had ELSE 0]
    /\ starters = [p \in Procs |-> IdleStart]
    /\ sent = {}
    /\ primed = [l \in EdgeLabels |-> 0]

EnsureNext ==
    \/ \E p \in Procs : EnsureCheck(p)
    \/ \E p \in Procs : EnsureCreate(p)

EnsureSpec == EnsureInit /\ [][EnsureNext]_vars

(***************** the retry wrapper against the database ******************)
RECURSIVE Schedules(_)
Schedules(n) ==
    IF n = 0 THEN {<<>>}
    ELSE Schedules(n - 1) \cup
         {Append(f, o) : f \in {g \in Schedules(n - 1) : Len(g) = n - 1}, o \in Outcomes}

RetryInit ==
    /\ GraphInit
    /\ faults \in Schedules(MaxFaults)
    /\ execs = NoRun
    /\ catalog = [n \in Names |-> IF n = DefaultGraph THEN 1 ELSE 0]
    /\ starters = [p \in Procs |-> IdleStart]
    /\ graph_name = DefaultGraph
    /\ request = NoRequest
    /\ sent = {}
    /\ primed = [l \in EdgeLabels |-> 0]

RetryNext == RunWithRetry

RetrySpec == RetryInit /\ [][RetryNext]_vars

(********* store.py: create_detail and create_insight, in steps ************)
\* lines 131-139 / 241-247: created_at and the id are drawn once, into params
CreateBegin(c, op, text, source) ==
    /\ calls[c].pc \in {"idle", "done", "failed"}
    /\ Fresh(1)
    /\ calls' = [calls EXCEPT ![c] =
            [pc |-> "ready", op |-> op, text |-> text, source |-> source,
             id |-> IdStr(nextId + 1), created_at |-> clock, attempt |-> 0]]
    /\ UNCHANGED <<nodes, edges, ret, label_ready, faults, execs>>

\* a variant whose failing execution has written its node all the same
CreateExecuteLeaving(c) ==
    /\ calls[c].pc = "ready"
    /\ LET p == calls[c]
           o == Outcome(faults, 1)
           res == IF p.op = "create_detail"
                  THEN CreateDetailQuery(Graph, p.text, p.source, p.id, p.created_at, None)
                  ELSE CreateInsightQuery(Graph, p.text, p.id, p.created_at, None)
       IN  /\ Commit(res)
           /\ IF o = Ok
              THEN /\ \E r \in FirstRow(res.rows) : ret' = Returned(p.op, <<p.text>>, PopEmbedding(r))
                   /\ calls' = [calls EXCEPT ![c].pc = "done"]
              ELSE IF p.attempt < Attempts /\ IsTransient(o)
              THEN /\ ret' = ret
                   /\ calls' = [calls EXCEPT ![c].attempt = @ + 1]
              ELSE /\ ret' = Raised(p.op, <<p.text>>)
                   /\ calls' = [calls EXCEPT ![c].pc = "failed"]
           /\ execs' = execute_cypher(faults)
           /\ faults' = Rest(faults, execs')
    /\ UNCHANGED <<nextId, clock, label_ready>>

\* lines 144 / 252 with 25-36: one execution of the statement with those
\* params, in its own transaction (age.py 47); after a race failure the
\* wrapper sleeps and executes again, up to three times
CreateExecute(c) ==
    /\ calls[c].pc = "ready"
    /\ LET p == calls[c]
           o == Outcome(faults, 1)
           res == IF p.op = "create_detail"
                  THEN CreateDetailQuery(Graph, p.text, p.source, p.id, p.created_at, None)
                  ELSE CreateInsightQuery(Graph, p.text, p.id, p.created_at, None)
       IN  /\ IF o = Ok
              THEN /\ Commit(res)
                   /\ \E r \in FirstRow(res.rows) : ret' = Returned(p.op, <<p.text>>, PopEmbedding(r))
                   /\ calls' = [calls EXCEPT ![c].pc = "done"]
              ELSE IF p.attempt < Attempts /\ IsTransient(o)
              THEN /\ nodes' = nodes /\ edges' = edges /\ ret' = ret
                   /\ calls' = [calls EXCEPT ![c].attempt = @ + 1]
              ELSE /\ Raise(p.op, <<p.text>>)
                   /\ calls' = [calls EXCEPT ![c].pc = "failed"]
           /\ execs' = execute_cypher(faults)
           /\ faults' = Rest(faults, execs')
    /\ UNCHANGED <<nextId, clock, label_ready>>

(************ creations re-executed while the database fails ***************)
replayVars == <<runs, handled, catalog, starters, graph_name, request, sent, primed>>

ReplayNext ==
    \/ \E m \in {EntityConflict, SyntaxFailure} : Disturb(m)
    \/ \E c \in Callers, t \in PlainTexts, src \in Sources :
          CreateBegin(c, "create_detail", t, src) /\ UNCHANGED replayVars
    \/ \E c \in Callers, t \in InsightTexts, src \in Sources :
          CreateBegin(c, "create_insight", t, src) /\ UNCHANGED replayVars
    \/ \E c \in Callers : CreateExecute(c) /\ UNCHANGED replayVars

ReplaySpec == Init /\ [][ReplayNext]_vars

(*************** the write operations against the database *****************)
envVars == <<procVars, catalog, starters, graph_name, request, sent, primed>>

FaultNext ==
    \/ \E m \in Outcomes \ {Ok} : Disturb(m)
    \/ \E l \in {<<"a">>} :
          create_domain(l) /\ Executed(faults) /\ UNCHANGED envVars
    \/ \E t \in {<<"b">>} :
          create_summary(t, None) /\ Executed(faults) /\ UNCHANGED envVars
    \/ \E t \in PlainTexts, src \in Sources :
          create_detail(t, src, None) /\ Executed(faults) /\ UNCHANGED envVars
    \/ \E t \in InsightTexts :
          create_insight(t, None) /\ Executed(faults) /\ UNCHANGED envVars
    \/ \E l \in {<<"a">>}, t \in {<<"b">>}, d \in PlainTexts, src \in Sources :
          insert_cluster_summary_detail(l, t, d, src) /\ Executed(faults) /\ UNCHANGED envVars
    \/ \E id \in IdsOf("Detail") :
          mark_detail_insight_processed(id) /\ Executed(faults) /\ UNCHANGED envVars
    \/ \E id \in IdsOf("Topic"), t \in {<<"b">>} :
          update_topic_text(id, t) /\ Executed(faults) /\ UNCHANGED envVars
    \/ \E id \in IdsOf("Insight"), t \in InsightTexts :
          update_insight_text(id, t) /\ Executed(faults) /\ UNCHANGED envVars
    \/ \E d \in IdsOf("Detail"), t \in IdsOf("Topic") :
          /\ link_detail_to_summary(Store, d, t)
          /\ Executed(AfterPriming(Store, "HAS_DETAIL", faults)) /\ UNCHANGED envVars
    \/ \E d \in IdsOf("Detail"), i \in IdsOf("Insight") :
          /\ link_detail_to_insight(Store, d, i)
          /\ Executed(AfterPriming(Store, "SUPPORTS_DETAIL", faults)) /\ UNCHANGED envVars
    \/ \E i \in IdsOf("Insight"), t \in IdsOf("Topic") :
          /\ link_insight_to_topic(Store, i, t)
          /\ Executed(AfterPriming(Store, "HAS_INSIGHT", faults)) /\ UNCHANGED envVars
    \/ \E t \in IdsOf("Topic"), l \in {<<"a">>} :
          /\ link_summary_to_cluster(Store, t, l)
          /\ Executed(AfterPriming(Store, "HAS_TOPIC", faults)) /\ UNCHANGED envVars

FaultSpec == Init /\ [][FaultNext]_vars

(************ insert_cluster_summary_detail, failing or not ****************)
AtomicNext ==
    \/ \E m \in Outcomes \ {Ok} : Disturb(m)
    \/ \E l \in {<<"a">>, <<"b">>}, t \in TopicTexts, d \in PlainTexts, src \in Sources :
          insert_cluster_summary_detail(l, t, d, src) /\ Executed(faults) /\ UNCHANGED envVars

AtomicSpec == Init /\ [][AtomicNext]_vars

(************* every operation that writes a node's properties *************)
\* the embedding a caller hands over: none, or one of two vectors
GivenEmbeddings == {None, Some(<<1, 0>>), Some(<<0, 1>>)}

KeepNext ==
    \/ \E l \in {<<"a">>} : create_domain(l) /\ UNCHANGED <<procVars, dbVars>>
    \/ \E t \in {<<"b">>}, e \in GivenEmbeddings :
          create_summary(t, e) /\ UNCHANGED <<procVars, dbVars>>
    \/ \E t \in PlainTexts, src \in Sources, e \in GivenEmbeddings :
          create_detail(t, src, e) /\ UNCHANGED <<procVars, dbVars>>
    \/ \E t \in InsightTexts, e \in GivenEmbeddings :
          create_insight(t, e) /\ UNCHANGED <<procVars, dbVars>>
    \/ \E l \in {<<"a">>}, t \in {<<"b">>}, d \in PlainTexts, src \in Sources :
          insert_cluster_summary_detail(l, t, d, src) /\ UNCHANGED <<procVars, dbVars>>
    \/ \E id \in IdsOf("Detail") :
          mark_detail_insight_processed(id) /\ UNCHANGED <<procVars, dbVars>>
    \/ \E id \in IdsOf("Topic"), t \in {<<"u", "t", "s">>} :
          update_topic_text(id, t) /\ UNCHANGED <<procVars, dbVars>>
    \/ \E id \in IdsOf("Insight"), t \in {<<"h">>} :
          update_insight_text(id, t) /\ UNCHANGED <<procVars, dbVars>>
    \/ \E id \in IdsOf("Topic"), l \in {<<"a">>} :
          link_summary_to_cluster(Store, id, l) /\ UNCHANGED <<procVars, dbVars>>

KeepSpec == Init /\ [][KeepNext]_vars

(***************** details written, marked and listed **********************)
PendingNext ==
    \/ \E t \in PlainTexts, src \in Sources :
          create_detail(t, src, None) /\ UNCHANGED <<procVars, dbVars>>
    \/ \E l \in {<<"a">>}, t \in {<<"b">>}, d \in PlainTexts, src \in Sources :
          insert_cluster_summary_detail(l, t, d, src) /\ UNCHANGED <<procVars, dbVars>>
    \/ \E id \in Refs("Detail") :
          mark_detail_insight_processed(id) /\ UNCHANGED <<procVars, dbVars>>
    \/ \E k \in 0..MaxClock : list_pending_details(k) /\ UNCHANGED <<procVars, dbVars>>

PendingSpec == Init /\ [][PendingNext]_vars

(****************** stores built with any graph name ***********************)
NameInit ==
    /\ GraphInit
    /\ faults = <<>>
    /\ execs = NoRun
    /\ graph_name \in Names
    /\ request = NoRequest
    /\ catalog = [n \in Names |-> 0]
    /\ starters = [p \in Procs |-> IdleStart]
    /\ sent = {}
    /\ primed = [l \in EdgeLabels |-> 0]

nameVars == <<procVars, faults, execs, catalog, starters, graph_name, request, primed>>

NameNext ==
    \/ EnsureCheck(1)
    \/ EnsureCreate(1)
    \/ \E l \in {<<"a">>} : create_domain(l) /\ Validated /\ UNCHANGED nameVars
    \/ \E t \in {<<"b">>} : create_summary(t, None) /\ Validated /\ UNCHANGED nameVars
    \/ \E t \in PlainTexts, src \in Sources :
          create_detail(t, src, None) /\ Validated /\ UNCHANGED nameVars
    \/ \E d \in Refs("Detail"), t \in Refs("Topic") :
          link_detail_to_summary(Store, d, t) /\ Validated /\ UNCHANGED nameVars
    \/ \E q \in Queries, k \in Limits : retrieve(q, k) /\ Validated /\ UNCHANGED nameVars

NameSpec == NameInit /\ [][NameNext]_vars

(******************* the link operations, any arguments ********************)
\* the database answers every statement: faults stays empty
linkVars == <<procVars, catalog, starters, graph_name, request, primed>>

LinkNext ==
    \/ \E t \in {<<"b">>} : create_summary(t, None) /\ Executed(faults) /\ UNCHANGED envVars
    \/ \E t \in PlainTexts, src \in Sources :
          create_detail(t, src, None) /\ Executed(faults) /\ UNCHANGED envVars
    \/ \E t \in InsightTexts :
          create_insight(t, None) /\ Executed(faults) /\ UNCHANGED envVars
    \/ \E d \in Refs("Detail"), t \in Refs("Topic") :
          /\ link_detail_to_summary(Store, d, t) /\ Logged
          /\ Executed(AfterPriming(Store, "HAS_DETAIL", faults)) /\ UNCHANGED linkVars
    \/ \E d \in Refs("Detail"), i \in Refs("Insight") :
          /\ link_detail_to_insight(Store, d, i) /\ Logged
          /\ Executed(AfterPriming(Store, "SUPPORTS_DETAIL", faults)) /\ UNCHANGED linkVars
    \/ \E i \in Refs("Insight"), t \in Refs("Topic") :
          /\ link_insight_to_topic(Store, i, t) /\ Logged
          /\ Executed(AfterPriming(Store, "HAS_INSIGHT", faults)) /\ UNCHANGED linkVars
    \/ \E t \in Refs("Topic"), l \in {<<"a">>} :
          /\ link_summary_to_cluster(Store, t, l) /\ Logged
          /\ Executed(AfterPriming(Store, "HAS_TOPIC", faults)) /\ UNCHANGED linkVars

LinkSpec == Init /\ [][LinkNext]_vars

(************* the priming statement of each relation type *****************)
\* The link operation of this step, on the store self, went through
\* _ensure_edge_label (store.py lines 38-54): the priming statement is counted
\* when it is issued.
Primes(self, label) ==
    IF PrimingIssued(self, label)
    THEN /\ primed[label] < MaxPrimings
         /\ primed' = [primed EXCEPT ![label] = @ + 1]
    ELSE UNCHANGED primed

\* A coroutine on the long-lived store enters a link operation: line 39 reads
\* _label_ready, and the await of line 50 lets other coroutines run.
LinkCheck(c, op, label, args) ==
    /\ calls[c].pc = "idle"
    /\ calls' = [calls EXCEPT ![c] =
            [pc |-> IF label \in label_ready THEN "ready" ELSE "priming",
             op |-> op, label |-> label, args |-> args]]
    /\ UNCHANGED <<nodes, edges, nextId, clock, ret, label_ready, primed>>

\* a variant that records the label only when the priming statement succeeded
LinkPrimeChecked(c) ==
    /\ calls[c].pc = "priming"
    /\ primed[calls[c].label] < MaxPrimings
    /\ primed' = [primed EXCEPT ![calls[c].label] = @ + 1]
    /\ label_ready' = IF execute_cypher(faults).ok
                      THEN label_ready \cup {calls[c].label} ELSE label_ready
    /\ calls' = [calls EXCEPT ![c].pc = "ready"]
    /\ UNCHANGED <<nodes, edges, nextId, clock, ret>>

\* lines 49-54: the priming statement of the coroutine is issued, whatever
\* _label_ready holds by now, and the label is recorded
LinkPrime(c) ==
    /\ calls[c].pc = "priming"
    /\ primed[calls[c].label] < MaxPrimings
    /\ primed' = [primed EXCEPT ![calls[c].label] = @ + 1]
    /\ label_ready' = label_ready \cup {calls[c].label}
    /\ calls' = [calls EXCEPT ![c].pc = "ready"]
    /\ UNCHANGED <<nodes, edges, nextId, clock, ret>>

\* the link statement of the coroutine
LinkRun(c) ==
    /\ calls[c].pc = "ready"
    /\ \/ /\ calls[c].op = "link_detail_to_summary"
          /\ link_detail_to_summary(Store, calls[c].args[1], calls[c].args[2])
       \/ /\ calls[c].op = "link_insight_to_topic"
          /\ link_insight_to_topic(Store, calls[c].args[1], calls[c].args[2])
    /\ calls' = [calls EXCEPT ![c] = IdleCall]
    /\ UNCHANGED primed

primeVars == <<runs, handled, catalog, starters, graph_name, request, sent>>

PrimeNext ==
    \/ \E t \in {<<"b">>} :
          create_summary(t, None) /\ Executed(faults) /\ UNCHANGED envVars
    \/ \E d \in Refs("Detail"), t \in Refs("Topic") :
          /\ link_detail_to_summary(Store, d, t) /\ Primes(Store, "HAS_DETAIL")
          /\ Executed(AfterPriming(Store, "HAS_DETAIL", faults))
          /\ UNCHANGED <<primeVars, calls>>
    \/ \E t \in Refs("Topic"), l \in {<<"a">>} :
          /\ link_summary_to_cluster(Store, t, l) /\ Primes(Store, "HAS_TOPIC")
          /\ Executed(AfterPriming(Store, "HAS_TOPIC", faults))
          /\ UNCHANGED <<primeVars, calls>>
    \/ \E t \in Refs("Topic"), l \in {<<"a">>} :
          /\ link_topic_domain(t, l) /\ Primes(RunDb, "HAS_TOPIC")
          /\ Executed(AfterPriming(RunDb, "HAS_TOPIC", faults))
          /\ UNCHANGED <<primeVars, calls>>
    \/ \E i \in Refs("Insight"), t \in Refs("Topic") :
          /\ link_insight_to_topic(RunDb, i, t) /\ Primes(RunDb, "HAS_INSIGHT")
          /\ Executed(AfterPriming(RunDb, "HAS_INSIGHT", faults))
          /\ UNCHANGED <<primeVars, calls>>
    \/ \E c \in Callers, d \in Refs("Detail"), t \in Refs("Topic") :
          /\ LinkCheck(c, "link_detail_to_summary", "HAS_DETAIL", <<d, t>>)
          /\ UNCHANGED <<primeVars, faults, execs>>
    \/ \E c \in Callers, i \in Refs("Insight"), t \in Refs("Topic") :
          /\ LinkCheck(c, "link_insight_to_topic", "HAS_INSIGHT", <<i, t>>)
          /\ UNCHANGED <<primeVars, faults, execs>>
    \/ \E c \in Callers :
          /\ LinkPrime(c)
          /\ execs' = execute_cypher(faults) /\ faults' = Rest(faults, execs')
          /\ UNCHANGED primeVars
    \/ \E c \in Callers : LinkRun(c) /\ Executed(faults) /\ UNCHANGED primeVars

PrimeSpec == Init /\ [][PrimeNext]_vars

(************ link operations while the database fails at times ************)
SwallowNext ==
    \/ \E m \in {EntityConflict, SyntaxFailure} : Disturb(m)
    \/ \E t \in {<<"b">>} :
          create_summary(t, None) /\ Executed(faults) /\ UNCHANGED envVars
    \/ \E t \in PlainTexts, src \in Sources :
          create_detail(t, src, None) /\ Executed(faults) /\ UNCHANGED envVars
    \/ \E c \in Callers, d \in IdsOf("Detail"), t \in Refs("Topic") :
          /\ LinkCheck(c, "link_detail_to_summary", "HAS_DETAIL", <<d, t>>)
          /\ UNCHANGED <<primeVars, faults, execs>>
    \/ \E c \in Callers :
          /\ LinkPrime(c)
          /\ execs' = execute_cypher(faults) /\ faults' = Rest(faults, execs')
          /\ UNCHANGED primeVars
    \/ \E c \in Callers : LinkRun(c) /\ Executed(faults) /\ UNCHANGED primeVars

SwallowSpec == Init /\ [][SwallowNext]_vars

(******************* embeddings.py: cosine_similarity **********************)
\* A vector is a sequence of integers; a similarity is counted in hundredths,
\* rounded toward zero (0.6 is 60).
RECURSIVE Dot(_, _)
Dot(a, b) == IF a = <<>> THEN 0 ELSE a[1] * b[1] + Dot(Tail(a), Tail(b))

\* np.linalg.norm(v) squared
SquaredNorm(v) == Dot(v, v)

\* dot / (norm_a * norm_b) in hundredths, given the squared norms
Quotient(dot, sa, sb) ==
    LET m == CHOOSE s \in 0..100 :
                 /\ s * s * sa * sb <= 10000 * dot * dot
                 /\ (s = 100 \/ (s + 1) * (s + 1) * sa * sb > 10000 * dot * dot)
    IN  IF dot < 0 THEN 0 - m ELSE m

\* what cosine_similarity gives: a float, in hundredths
Float(v) == [kind |-> "float", value |-> v]
\* np.dot of two vectors of different shapes raises ValueError
ShapeError == [kind |-> "ValueError", value |-> 0]
\* a float division by a zero denominator
NotANumber == [kind |-> "nan", value |-> 0]

\* a variant without the test of the denominator
CosineUnguarded(a, b) ==
    IF Len(a) = 0 \/ Len(b) = 0 THEN Float(0)
    ELSE IF Len(a) # Len(b) THEN ShapeError
    ELSE IF SquaredNorm(a) * SquaredNorm(b) = 0 THEN NotANumber
    ELSE Float(Quotient(Dot(a, b), SquaredNorm(a), SquaredNorm(b)))

\* lines 60-68: the sizes and the denominator are tested before np.dot runs
cosine_similarity(a, b) ==
    IF Len(a) = 0 \/ Len(b) = 0 THEN Float(0)
    ELSE IF SquaredNorm(a) = 0 \/ SquaredNorm(b) = 0 THEN Float(0)
    ELSE IF Len(a) # Len(b) THEN ShapeError
    ELSE Float(Quotient(Dot(a, b), SquaredNorm(a), SquaredNorm(b)))

(********************* retrieve.py: retrieve_memory ************************)
\* lines 100-102: the key of a row, `id or label or "cluster"`
RowKey(row) ==
    LET c == TheVal(row.cluster)
        t == TheVal(row.summary)
    IN  << IF c.id # None THEN TheVal(c.id)
           ELSE IF c.label # None THEN TheVal(c.label) ELSE <<"cluster">>,
           IF t.id # None THEN TheVal(t.id)
           ELSE IF t.text # None THEN TheVal(t.text) ELSE <<"topic">> >>

\* lines 93-107: the rows grouped by key, in the order the keys first appear;
\* a row with no detail adds none
RECURSIVE Grouped(_, _)
Grouped(rows, grouped) ==
    IF rows = <<>> THEN grouped
    ELSE LET row == rows[1]
             at == {i \in DOMAIN grouped : grouped[i].key = RowKey(row)}
             item == [key |-> RowKey(row), cluster |-> TheVal(row.cluster),
                      summary |-> TheVal(row.summary), details |-> <<>>]
             had == IF at = {} THEN Append(grouped, item) ELSE grouped
             i == CHOOSE i \in DOMAIN had : had[i].key = RowKey(row)
         IN  Grouped(Tail(rows),
                     IF row.detail = None THEN had
                     ELSE [had EXCEPT ![i].details = Append(@, TheVal(row.detail))])

\* lines 9-24: the best similarity of the topic's and the details' embeddings,
\* 0 when there is none; an exception of cosine_similarity goes to the caller
_score_item(query_vec, item) ==
    LET vecs == {item.summary.embedding}
                \cup {item.details[i].embedding : i \in DOMAIN item.details}
        sims == {cosine_similarity(query_vec, TheVal(v)) : v \in vecs \ {None}}
        best == {x.value : x \in {x \in sims : x.kind = "float"}} \cup {0}
    IN  IF ShapeError \in sims THEN ShapeError
        ELSE Float(CHOOSE m \in best : \A x \in best : x <= m)

\* a variant that puts a candidate before those of equal score
InsertedFirst(sorted, x) ==
    LET before == {i \in DOMAIN sorted : sorted[i].score > x.score}
        n == Cardinality(before)
    IN  SubSeq(sorted, 1, n) \o <<x>> \o SubSeq(sorted, n + 1, Len(sorted))

\* list.sort(key=score, reverse=True) is stable: a candidate goes after
\* those whose score is as high
Inserted(sorted, x) ==
    LET before == {i \in DOMAIN sorted : sorted[i].score >= x.score}
        n == Cardinality(before)
    IN  SubSeq(sorted, 1, n) \o <<x>> \o SubSeq(sorted, n + 1, Len(sorted))

RECURSIVE SortedByScore(_, _)
SortedByScore(scored, sorted) ==
    IF scored = <<>> THEN sorted
    ELSE SortedByScore(Tail(scored), Inserted(sorted, scored[1]))

\* scored[:top_k]
Sliced(q, k) ==
    LET n == IF k >= 0 THEN (IF k < Len(q) THEN k ELSE Len(q))
             ELSE (IF Len(q) + k > 0 THEN Len(q) + k ELSE 0)
    IN  SubSeq(q, 1, n)

\* a variant that drops the candidates below or at the threshold
SurvivesAbove(score, min_score) == score > min_score

\* line 111: score >= min_score
Survives(score, min_score) == score >= min_score

\* lines 109-115: score, filter, sort, cut
Ranked(candidates, query_vec, min_score, top_k) ==
    LET scored == [i \in DOMAIN candidates |->
                     [item |-> candidates[i],
                      score |-> _score_item(query_vec, candidates[i]).value]]
        kept == SelectSeq(scored, LAMBDA x : Survives(x.score, min_score))
    IN  Sliced(SortedByScore(kept, <<>>), top_k)

\* lines 117-125: the insights of a record's topic are attached, in the
\* order list_insights_for_topic returns them
WithInsights(item, insights) ==
    [cluster |-> item.cluster, summary |-> item.summary, details |-> item.details,
     insights |-> insights]

\* the orders list_insights_for_topic may return the insights of a topic in
InsightLists(g, item) ==
    IF item.summary.id = None THEN {<<>>}
    ELSE Orderings(InsightsForTopics(g, {TheVal(item.summary.id)}))

RECURSIVE Attached(_, _)
Attached(g, ranked) ==
    IF ranked = <<>> THEN {<<>>}
    ELSE {<<WithInsights(ranked[1].item, ins)>> \o rest :
             ins \in InsightLists(g, ranked[1].item), rest \in Attached(g, Tail(ranked))}

\* lines 81-127, after store.retrieve has returned the rows: what it may return
RetrieveMemory(g, rows, query_vec, min_score, top_k) ==
    Attached(g, Ranked(Grouped(rows, <<>>), query_vec, min_score, top_k))

\* cosine_similarity raised for a candidate
ScoringRaises(rows, query_vec) ==
    LET candidates == Grouped(rows, <<>>)
    IN  \E i \in DOMAIN candidates : _score_item(query_vec, candidates[i]) = ShapeError

retrieve_memory ==
    /\ request.fn = "retrieve_memory"
    /\ ret.op = "init"
    /\ IF ScoringRaises(request.rows, request.query_vec)
       THEN ret' = Raised("retrieve_memory", <<>>)
       ELSE \E results \in RetrieveMemory(Graph, request.rows, request.query_vec,
                                          request.min_score, request.top_k) :
               ret' = Returned("retrieve_memory", <<request.min_score, request.top_k>>,
                               results)
    /\ UNCHANGED <<nodes, edges, nextId, clock, label_ready, request>>

(*************** candidates of any scores, ranked and cut ******************)
\* the query's embedding (embed_text), and the embeddings stored with nodes
QueryVec == <<1, 0>>
RankDomain == Node("Domain", Some(<<"c">>), Some(<<"a">>), None, None, Some(1), None, None)
RankTopic(id, embedding) ==
    Node("Topic", Some(<<id>>), None, Some(<<id>>), None, Some(1), embedding, None)
RankDetail(id, embedding) ==
    Node("Detail", Some(<<id>>), None, Some(<<id>>), Some(<<"s">>), Some(1), embedding, Some(TRUE))
\* two topics of similarity 0.6 and one without embedding
RankTopics == {RankTopic("p", Some(<<3, 4>>)), RankTopic("q", Some(<<3, 4>>)),
               RankTopic("r", None)}
\* no detail, or a detail of similarity 1
RankDetails == {None, Some(RankDetail("x", Some(<<1, 0>>)))}
RankRows ==
    {[cluster |-> Some(RankDomain), summary |-> Some(t), detail |-> d] :
        t \in RankTopics, d \in RankDetails}
\* the rows store.retrieve returns, in any order
RowLists == UNION {Orderings(T) : T \in {T \in SUBSET RankRows : Cardinality(T) <= MaxRows}}
\* min_score in hundredths: none, the default 0.35, a score met, a score missed
MinScores == {0, 35, 60, 61}

RankInit ==
    /\ GraphInit
    /\ HealthyDb
    /\ \E rows \in RowLists, m \in MinScores, k \in 1..MaxTopK :
          request = [fn |-> "retrieve_memory", rows |-> rows, query_vec |-> QueryVec,
                     min_score |-> m, top_k |-> k]

RankNext == retrieve_memory /\ UNCHANGED <<procVars, faults, execs, catalog, starters, graph_name, sent, primed>>

RankSpec == RankInit /\ [][RankNext]_vars

(********************** retrieve.py: format_results ************************)
\* the code point of a character, for the characters of the texts used here
CodePoint(c) ==
    CASE c = " " -> 32 [] c = "A" -> 65 [] c = "B" -> 66 [] c = "G" -> 71
      [] c = "a" -> 97 [] c = "b" -> 98 [] c = "g" -> 103 [] c = "x" -> 120
      [] c = "y" -> 121 [] OTHER -> 63

\* Python's s < t on strings: by code point, a proper prefix first
RECURSIVE StrLess(_, _)
StrLess(s, t) ==
    IF t = <<>> THEN FALSE
    ELSE IF s = <<>> THEN TRUE
    ELSE IF s[1] # t[1] THEN CodePoint(s[1]) < CodePoint(t[1])
    ELSE StrLess(Tail(s), Tail(t))

\* a variant that sorts downward
SortedDownward(S) == CHOOSE q \in Orderings(S) : \A i, j \in DOMAIN q : i < j => StrLess(q[j], q[i])

\* sorted(S) for a set of strings
SortedTexts(S) == CHOOSE q \in Orderings(S) : \A i, j \in DOMAIN q : i < j => StrLess(q[i], q[j])

\* str(d.get("text", "")).strip(): a property that is not there reads as ""
TextOf(prop) == IF prop = None THEN <<>> ELSE Strip(TheVal(prop))

\* lines 36-45 for one record: its domain, its topic, its insight texts
Meta(item) ==
    [topics |-> {TextOf(item.summary.text)} \ {<<>>},
     domains |-> {TextOf(item.cluster.label)} \ {<<>>},
     insights |-> {TextOf(item.insights[i].text) : i \in DOMAIN item.insights} \ {<<>>}]

\* lines 47-63: the details of one record put into detail_map, a sequence of
\* buckets in the order their texts were first seen
RECURSIVE Bucketed(_, _, _)
Bucketed(detail_map, details, meta) ==
    IF details = <<>> THEN detail_map
    ELSE LET text == TextOf(details[1].text)
             at == {i \in DOMAIN detail_map : detail_map[i].detail = text}
             had == IF at = {}
                    THEN Append(detail_map, [detail |-> text, topics |-> {},
                                             domains |-> {}, insights |-> {}])
                    ELSE detail_map
             i == CHOOSE i \in DOMAIN had : had[i].detail = text
         IN  IF text = <<>> THEN Bucketed(detail_map, Tail(details), meta)
             ELSE Bucketed([had EXCEPT ![i].topics = @ \cup meta.topics,
                                       ![i].domains = @ \cup meta.domains,
                                       ![i].insights = @ \cup meta.insights],
                           Tail(details), meta)

\* lines 30-63
RECURSIVE DetailMap(_, _)
DetailMap(results, detail_map) ==
    IF results = <<>> THEN detail_map
    ELSE DetailMap(Tail(results),
                   Bucketed(detail_map, results[1].details, Meta(results[1])))

\* lines 69-76: the lines of one detail; a list that is empty has no line
Block(idx, bucket) ==
    <<[head |-> "Detail", idx |-> idx, items |-> <<bucket.detail>>]>>
    \o (IF bucket.topics = {} THEN <<>>
        ELSE <<[head |-> "Topics", idx |-> idx, items |-> SortedTexts(bucket.topics)]>>)
    \o (IF bucket.domains = {} THEN <<>>
        ELSE <<[head |-> "Domains", idx |-> idx, items |-> SortedTexts(bucket.domains)]>>)
    \o (IF bucket.insights = {} THEN <<>>
        ELSE <<[head |-> "Insights", idx |-> idx, items |-> SortedTexts(bucket.insights)]>>)

RECURSIVE Blocks(_, _)
Blocks(detail_map, idx) ==
    IF idx > Len(detail_map) THEN <<>>
    ELSE Block(idx, detail_map[idx]) \o Blocks(detail_map, idx + 1)

\* lines 27-78: the lines of the text returned, none for the empty string
FormatResults(results) == Blocks(DetailMap(results, <<>>), 1)

format_results ==
    /\ request.fn = "format_results"
    /\ ret.op = "init"
    /\ ret' = Returned("format_results", <<>>, FormatResults(request.results))
    /\ UNCHANGED <<nodes, edges, nextId, clock, label_ready, request>>

(******************* records of any content, formatted *********************)
Text(t) == [text |-> t]
\* lists of details: none, one, one met before with a space in front and
\* another, one that is blank
DetailLists == {<<>>, <<Text(Some(<<"x">>))>>,
                <<Text(Some(<<" ", "x">>)), Text(Some(<<"y">>))>>, <<Text(Some(<<" ">>))>>}
Records ==
    {[cluster |-> [label |-> l], summary |-> Text(t), details |-> d, insights |-> i] :
        l \in {Some(<<"a">>), Some(<<"B">>)}, t \in {Some(<<"b">>), Some(<<"A">>)},
        d \in DetailLists, i \in {<<>>, <<Text(Some(<<"g">>)), Text(Some(<<"G">>))>>}}
RecordLists == UNION {[1..n -> Records] : n \in 0..MaxRecords}

FormatInit ==
    /\ GraphInit
    /\ HealthyDb
    /\ \E results \in RecordLists : request = [fn |-> "format_results", results |-> results]

FormatNext == format_results /\ UNCHANGED <<procVars, faults, execs, catalog, starters, graph_name, sent, primed>>

FormatSpec == FormatInit /\ [][FormatNext]_vars

(******************* queries of any wording, expanded **********************)
expand_query_terms ==
    /\ request.fn = "_expand_query_terms"
    /\ ret.op = "init"
    /\ ret' = Returned("_expand_query_terms", <<request.query>>,
                       _expand_query_terms(request.query))
    /\ UNCHANGED <<nodes, edges, nextId, clock, label_ready, request>>

\* a query: a word that triggers a family or none, alone or among others
QueryWords ==
    {<<"f", "o", "o", "d">>,
     <<"F", "o", "o", "d">>,
     <<"E", "A", "T">>,
     <<"g", "r", "e", "a", "t">>,
     <<"r", "e", "s", "t", "a", "u", "r", "a", "n", "t", "s">>,
     <<"s", "h", "o", "p">>,
     <<"t", "r", "i", "p">>,
     <<"x">>,
     <<"s", "t", "y", "l", "e">>,
     <<"f", "a", "s", "h", "i", "o", "n">>,
     <<>>}
QueryHeads == {<<>>, <<" ">>, <<"g", "o", "o", "d", " ">>}
QueryTails == {<<>>, <<" ">>, <<" ", "t", "r", "i", "p">>, <<" ", "S", "H", "O", "P">>}
ExpandQueries == {h \o w \o t : h \in QueryHeads, w \in QueryWords, t \in QueryTails}

ExpandInit ==
    /\ GraphInit
    /\ HealthyDb
    /\ \E q \in ExpandQueries : request = [fn |-> "_expand_query_terms", query |-> q]

ExpandNext == expand_query_terms /\ UNCHANGED <<procVars, faults, execs, catalog, starters, graph_name, sent, primed>>

ExpandSpec == ExpandInit /\ [][ExpandNext]_vars

(********************* vectors of any shape, compared ***********************)
\* a call of cosine_similarity: it returns a float or raises
cosine ==
    /\ request.fn = "cosine_similarity"
    /\ ret.op = "init"
    /\ LET sim == cosine_similarity(request.a, request.b)
       IN  IF sim = ShapeError THEN ret' = Raised("cosine_similarity", <<>>)
           ELSE ret' = Returned("cosine_similarity", <<request.a, request.b>>, sim)
    /\ UNCHANGED <<nodes, edges, nextId, clock, label_ready, request>>

Vectors == UNION {[1..n -> {0 - 1, 0, 1, 2}] : n \in 0..MaxDim}

CosineInit ==
    /\ GraphInit
    /\ HealthyDb
    /\ \E a \in Vectors, b \in Vectors : request = [fn |-> "cosine_similarity", a |-> a, b |-> b]

CosineNext == cosine /\ UNCHANGED <<procVars, faults, execs, catalog, starters, graph_name, sent, primed>>

CosineSpec == CosineInit /\ [][CosineNext]_vars

(********************* memory_tools.py: memory_retrieve ********************)
\* config.py lines 7-35: the fields of Settings, as load_settings fills them
Settings ==
    [openai_api_key |-> "key", openai_model |-> "gpt-4o-mini", openai_base_url |-> "none",
     database_url |-> "url", age_graph_name |-> "gmemory"]

\* the text returned when nothing was retrieved, as a line
NoMemory == <<[head |-> "No relevant memory found.", idx |-> 0, items |-> <<>>]>>

\* _retrieve_once, lines 24-38, with the store and the embedding provider at
\* hand.  The arguments of retrieve_memory are evaluated first: reading an
\* attribute the Settings object does not have raises AttributeError.
memory_retrieve ==
    /\ request.fn = "memory_retrieve"
    /\ ret.op = "init"
    /\ IF "retrieval_min_score" \notin DOMAIN Settings
       THEN ret' = Raised("memory_retrieve", <<>>)
       ELSE IF ScoringRaises(request.rows, request.query_vec)
       THEN ret' = Raised("memory_retrieve", <<>>)
       ELSE \E results \in RetrieveMemory(Graph, request.rows, request.query_vec,
                                          Settings.retrieval_min_score, request.top_k) :
               ret' = Returned("memory_retrieve", <<request.top_k>>,
                               IF results = <<>> THEN NoMemory
                               ELSE FormatResults(results))
    /\ UNCHANGED <<nodes, edges, nextId, clock, label_ready, request>>

ToolInit ==
    /\ GraphInit
    /\ HealthyDb
    /\ \E rows \in RowLists, k \in 1..MaxTopK :
          request = [fn |-> "memory_retrieve", rows |-> rows, query_vec |-> QueryVec,
                     top_k |-> k]

ToolNext == memory_retrieve /\ UNCHANGED <<procVars, faults, execs, catalog, starters, graph_name, sent, primed>>

ToolSpec == ToolInit /\ [][ToolNext]_vars

(******************************* the claims ********************************)
DetailNodes == OfKind(nodes, "Detail")
\* list_pending_details would still return the detail with this id
StillPending(id) == \E d \in PendingDetails(nodes) : d.id = Some(id)
BatchIds(r) == {TheVal(runs[r].pending[i].id) : i \in 1..Len(runs[r].pending)}

\* C1: when generate_insights returns, every detail of the batch it listed
\* has insight_pending = false and processed + errors equals the batch size.
C1_ReturnedBatchAllProcessed ==
    \A r \in RunIds :
        runs[r].pc = "returned" =>
            /\ \A id \in BatchIds(r) : ~StillPending(id)
            /\ runs[r].processed + runs[r].errors = Len(runs[r].pending)

\* C2: an exception raised while one detail is handled, the marking call
\* included, is caught and counted: it never leaves generate_insights.
C2_PerDetailExceptionNeverPropagates ==
    \A r \in RunIds : ~(runs[r].pc = "raised" /\ runs[r].exc = "handler")

\* C3: a detail that a run has picked and counted is marked processed by that
\* run, so that no later list_pending_details returns it.
C3_CountedDetailLeavesQueue ==
    \A id \in handled : ~StillPending(id)

\* C4: once a detail's insight_pending is false it stays false, whatever
\* operation or pipeline step comes next, and the detail stays in the graph.
C4_PendingFlagMonotonic ==
    [][\A d \in DetailNodes :
          ~IsPending(d) =>
              /\ \E e \in OfKind(nodes', "Detail") : e.id = d.id
              /\ \A e \in OfKind(nodes', "Detail") : e.id = d.id => ~IsPending(e)]_vars

\* a detail marked by the Reasoner's tool and marked again by the pipeline
C4_Witness ==
    /\ runs[1].pc = "returned"
    /\ runs[1].tools = 1
    /\ runs[1].processed = 1
    /\ ret.op = "mark_detail_processed" /\ ret.ok
    /\ \E d \in DetailNodes :
          /\ d.id = ret.val
          /\ TheVal(d.id) \in handled
          /\ d.insight_pending = Some(FALSE)
          /\ TheVal(d.insight_processed_at) > TheVal(d.created_at) + 1

\* C5: a retrieve whose query is a substring of the text of a detail that
\* insert_cluster_summary_detail wrote returns a record holding that text.
C5_InsertThenRetrieveFindsDetail ==
    (ret.op = "retrieve" /\ ret.ok) =>
        \A d \in DetailNodes :
            Contains(TheVal(d.text), ret.args[1]) =>
                \E row \in ret.val :
                    row.detail # None /\ TheVal(row.detail).text = d.text

DomainNodes == OfKind(nodes, "Domain")
SameNormalized(a, b) == _normalize_label(a) = _normalize_label(b)
CreateDomainReturned == ret'.op = "create_domain" /\ ret'.ok /\ clock' # clock

\* C6: a create_domain whose label equals, after normalization, the label of
\* a Domain node already there adds no Domain node and returns that node's
\* id and created_at.
C6_CreateDomainMergesNormalized ==
    [][CreateDomainReturned =>
         \A n \in DomainNodes :
             SameNormalized(TheVal(n.label), ret'.args[1]) =>
                 /\ OfKind(nodes', "Domain") = DomainNodes
                 /\ ret'.val.id = n.id
                 /\ ret'.val.created_at = n.created_at]_vars

\* C7: no two Domain nodes have labels that are equal after normalization.
C7_DomainLabelsUniqueNormalized ==
    \A m, n \in DomainNodes :
        m # n => ~SameNormalized(TheVal(m.label), TheVal(n.label))

\* the domain nodes insert_cluster_summary_detail merges on: label Cluster
ClusterNodes(label) == {n \in OfKind(nodes, "Cluster") : n.label = Some(label)}
BothInserted == \A c \in Callers : calls[c].pc = "done"
SameLabel == calls[1].cluster_label = calls[2].cluster_label

\* C8: when two concurrent insert_cluster_summary_detail calls with one
\* domain label have both committed, whatever the order of their steps, the
\* graph holds one domain node with that label, the two topics and the two
\* details, each topic linked from that domain node and to its own detail.
C8_ConcurrentInsertsShareOneDomain ==
    (BothInserted /\ SameLabel) =>
        /\ Cardinality(ClusterNodes(calls[1].cluster_label)) = 1
        /\ Cardinality(OfKind(nodes, "Summary")) = 2
        /\ Cardinality(DetailNodes) = 2
        /\ calls[1].summary_id # calls[2].summary_id
        /\ calls[1].detail_id # calls[2].detail_id
        /\ \A c \in Callers, dom \in ClusterNodes(calls[1].cluster_label) :
              /\ Cardinality(ById(nodes, "Summary", calls[c].summary_id)) = 1
              /\ Cardinality(ById(nodes, "Detail", calls[c].detail_id)) = 1
              /\ \A t \in ById(nodes, "Summary", calls[c].summary_id) :
                    t.text = Some(calls[c].summary_text)
              /\ \A d \in ById(nodes, "Detail", calls[c].detail_id) :
                    d.text = Some(calls[c].detail_text)
              /\ Edge("HAS_SUMMARY", TheVal(dom.id), calls[c].summary_id) \in edges
              /\ Edge("HAS_DETAIL", calls[c].summary_id, calls[c].detail_id) \in edges
              /\ \A e \in edges :
                    e.to = calls[c].summary_id => e.from = TheVal(dom.id)

\* both calls committed with one label, and the call that drew its ids last
\* ran its statement first: the domain node carries that call's id
C8_Witness ==
    /\ BothInserted /\ SameLabel
    /\ \E c, o \in Callers :
          /\ calls[c].created_at > calls[o].created_at
          /\ \E dom \in ClusterNodes(calls[c].cluster_label) :
                dom.id = Some(calls[c].cluster_id)

\* C9: no two Topic nodes have the same text.
C9_TopicTextUnique ==
    \A s, t \in OfKind(nodes, "Topic") : s # t => s.text # t.text

\* C11: no two nodes of the graph, whatever their labels, have the same id;
\* every node has an id, and it is one that _new_id handed out.
C11_NodeIdsUnique ==
    /\ \A m, n \in nodes : m # n => m.id # n.id
    /\ \A n \in nodes : n.id # None /\ TheVal(n.id) \in IssuedIds

\* a merge found its node and dropped the id drawn for it, among other nodes
C11_Witness ==
    /\ ret.op \in {"create_domain", "create_summary"} /\ ret.ok
    /\ ret.val.id # Some(IdStr(nextId))
    /\ Cardinality(nodes) >= 2
    /\ \E n \in nodes : n.id = ret.val.id

\* a dict of node properties, as returned, with no embedding in it
Stripped(props) == "embedding" \notin DOMAIN props \/ props.embedding = None

\* C12: no value a GraphStore operation returns holds an embedding: not the
\* node a create returns, not the detail, topics and domains of
\* get_detail_context, not the cluster, summary and detail of a retrieve row.
C12_NoEmbeddingReturned ==
    ret.ok =>
        /\ ret.op \in {"create_summary", "create_detail", "create_insight"} =>
              Stripped(ret.val)
        /\ (ret.op = "get_detail_context" /\ ret.val # EmptyDict) =>
              /\ Stripped(ret.val.detail)
              /\ \A t \in ret.val.topics \cup ret.val.domains : Stripped(t)
        /\ ret.op = "retrieve" =>
              \A row \in ret.val :
                  \A n \in row.cluster \cup row.summary \cup row.detail : Stripped(n)

\* C13: however the ensure_graph calls of several processes interleave, and
\* however often a process calls it, no call raises, and once a call has
\* returned exactly one graph of the name exists.
C13_EnsureGraphIdempotent ==
    /\ \A p \in Procs : starters[p].pc # "raised"
    /\ catalog[graph_name] <= 1
    /\ (\E p \in Procs : starters[p].pc = "returned") => catalog[graph_name] = 1

\* two processes passed the catalog check before either created the graph;
\* both have returned, one of them through the error of create_graph
C13_Witness ==
    /\ catalog[graph_name] = 1
    /\ \E p, q \in Procs :
          /\ starters[p].pc = "returned" /\ starters[p].error = <<>>
          /\ starters[q].pc = "returned" /\ starters[q].error \in ExistsErrors
          /\ starters[p].calls = 1 /\ starters[q].calls = 1

WrapperRan == ret.op = "_execute_cypher_with_retry"
Failure(o) == o # Ok
\* the two failures that are transient races: a duplicate-table race of
\* label creation and a concurrent entity-update conflict
Race(o) == o \in {DuplicateTable, EntityConflict}

\* C14: a run of the retry wrapper whose executions all fail with a race
\* error executes the statement at most three times and then raises.
C14_AtMostThreeExecutions ==
    (WrapperRan /\ \A i \in DOMAIN execs.seen : Race(execs.seen[i])) =>
        /\ Len(execs.seen) <= 3
        /\ ~ret.ok

\* C15: in a run of the retry wrapper, a failure that is no race error ends
\* the run: the execution that met it is the last, no sleep follows it, and
\* the caller gets that error.
C15_OtherFailureRaisedAtOnce ==
    WrapperRan =>
        \A i \in DOMAIN execs.seen :
            (Failure(execs.seen[i]) /\ ~Race(execs.seen[i])) =>
                /\ i = Len(execs.seen)
                /\ Len(execs.sleeps) = i - 1
                /\ ~ret.ok /\ ~execs.ok
                /\ execs.error = execs.seen[i]

\* a race error, a sleep, and then a failure that is no race error
C15_Witness ==
    /\ WrapperRan /\ ~ret.ok
    /\ Len(execs.seen) = 2
    /\ Race(execs.seen[1]) /\ execs.seen[2] = EntityMissing
    /\ execs.sleeps = <<1>>

WriteOps ==
    RetriedOps \cup {"insert_cluster_summary_detail", "mark_detail_insight_processed",
                     "update_insight_text", "update_topic_text"}

\* C16: a write operation whose first execution met a race error, and whose
\* next execution succeeded or would succeed, returns to its caller.
C16_WriteSurvivesOneRace ==
    (/\ ret.op \in WriteOps
     /\ execs.seen # <<>> /\ Race(execs.seen[1])
     /\ Outcome(Tail(execs.seen) \o faults, 1) = Ok) => ret.ok

\* C17: for a store whose graph name is no identifier, no statement carrying
\* the name is sent to the database, no ensure_graph returns and no Cypher
\* operation returns.
C17_InvalidNameNeverSent ==
    ~IsIdentifier(graph_name) =>
        /\ \A st \in sent : st.name # graph_name
        /\ \A p \in Procs : starters[p].pc # "returned"
        /\ ret.op # "init" => ~ret.ok

LinkOps == {"link_detail_to_summary", "link_detail_to_insight",
            "link_insight_to_topic", "link_summary_to_cluster"}

\* the nodes a link call names: the start and the end of the relationship
LinkFrom(op, args) ==
    CASE op = "link_detail_to_summary" -> ById(nodes, "Topic", args[2])
      [] op = "link_detail_to_insight" -> ById(nodes, "Insight", args[2])
      [] op = "link_insight_to_topic" -> ById(nodes, "Topic", args[2])
      [] op = "link_summary_to_cluster" ->
            {c \in OfKind(nodes, "Domain") : c.label = Some(args[2])}
LinkTo(op, args) ==
    CASE op = "link_detail_to_summary" -> ById(nodes, "Detail", args[1])
      [] op = "link_detail_to_insight" -> ById(nodes, "Detail", args[1])
      [] op = "link_insight_to_topic" -> ById(nodes, "Insight", args[1])
      [] op = "link_summary_to_cluster" -> ById(nodes, "Topic", args[1])
LinkType(op) ==
    CASE op = "link_detail_to_summary" -> "HAS_DETAIL"
      [] op = "link_detail_to_insight" -> "SUPPORTS_DETAIL"
      [] op = "link_insight_to_topic" -> "HAS_INSIGHT"
      [] op = "link_summary_to_cluster" -> "HAS_TOPIC"
\* the relationships of the call's type between the nodes it names
Linked(es, op, args) ==
    {e \in es : /\ e.type = LinkType(op)
                /\ \E a \in LinkFrom(op, args) : e.from = TheVal(a.id)
                /\ \E b \in LinkTo(op, args) : e.to = TheVal(b.id)}
LinkReturned == ret'.op \in LinkOps /\ ret'.ok

\* C18: within one process the priming statement of a relation type is issued
\* at most once, over link operations on one GraphStore, concurrent or not,
\* and over the tools that run through _run_db.
C18_PrimedAtMostOnce == \A l \in EdgeLabels : primed[l] <= 1

\* the grouped candidates of the call at hand, and the best score of one
Candidates == Grouped(request.rows, <<>>)
BestScore(item) == _score_item(request.query_vec, item).value
\* the candidate a returned record was made of
Origin(rec) ==
    CHOOSE i \in DOMAIN Candidates :
        Candidates[i].cluster = rec.cluster /\ Candidates[i].summary = rec.summary
Survivors == {i \in DOMAIN Candidates : BestScore(Candidates[i]) >= request.min_score}
Output == {Origin(ret.val[j]) : j \in DOMAIN ret.val}
RankReturned == ret.op = "retrieve_memory" /\ ret.ok
NonIncreasing ==
    \A j, k \in DOMAIN ret.val :
        j < k => BestScore(ret.val[j]) >= BestScore(ret.val[k])

\* C21 as stated: a candidate is in the output of retrieve_memory exactly when
\* its best score is at least min_score, and the scores of the output never
\* increase.
C21_InOutputIffAboveThreshold ==
    RankReturned => Output = Survivors /\ NonIncreasing

\* C21 amended: every record of the output has a best score of at least
\* min_score, the scores of the output never increase, and when at most
\* top_k candidates reach min_score each of them is in the output.
C21_OutputAboveThreshold ==
    RankReturned =>
        /\ Output \subseteq Survivors
        /\ NonIncreasing
        /\ Cardinality(Survivors) <= request.top_k => Output = Survivors

\* a call returned a record whose score is just min_score and left out a
\* candidate below it
C21_Witness ==
    /\ RankReturned
    /\ \E j \in DOMAIN ret.val : BestScore(ret.val[j]) = request.min_score
    /\ Len(ret.val) >= 2
    /\ \E i \in DOMAIN Candidates : i \notin Survivors
    /\ Output = Survivors

\* the candidate i comes before the candidate j in the ranking: its score is
\* higher, or as high and it is earlier among the grouped candidates
Precedes(i, j) ==
    \/ BestScore(Candidates[i]) > BestScore(Candidates[j])
    \/ BestScore(Candidates[i]) = BestScore(Candidates[j]) /\ i < j

\* C22: retrieve_memory returns at most top_k records: the first top_k of the
\* candidates that reach min_score, by score descending, candidates of equal
\* score in the order of the grouped candidates.
C22_FirstTopKStable ==
    RankReturned =>
        /\ Len(ret.val) <= request.top_k
        /\ Len(ret.val) = request.top_k \/ Output = Survivors
        /\ Output \subseteq Survivors
        /\ Cardinality(Output) = Len(ret.val)
        /\ \A j, k \in DOMAIN ret.val :
              j < k => Precedes(Origin(ret.val[j]), Origin(ret.val[k]))
        /\ \A i \in Output, j \in Survivors \ Output : Precedes(i, j)

\* two records were returned and a candidate was cut whose score equals that
\* of a returned record
C22_Witness ==
    /\ RankReturned
    /\ Len(ret.val) = 2
    /\ \E j \in Survivors \ Output, i \in Output :
          BestScore(Candidates[j]) = BestScore(Candidates[i])

\* some term occurs, ignoring case, in the row's domain label, topic text or
\* detail text
RowMatches(terms, row) ==
    \E i \in DOMAIN terms :
        \/ \E c \in row.cluster : LowerContains(c.label, terms[i])
        \/ \E t \in row.summary : LowerContains(t.text, terms[i])
        \/ \E d \in row.detail : LowerContains(d.text, terms[i])

\* C23: for a non-blank query every row GraphStore.retrieve returns has a
\* domain label, topic text or detail text that contains an expanded query
\* term, ignoring case; a domain-topic pair with no such text is not returned.
C23_RetrievedRowsMatch ==
    (ret.op = "retrieve" /\ ret.ok /\ Strip(ret.args[1]) # <<>>) =>
        \A row \in ret.val : RowMatches(_expand_query_terms(ret.args[1]), row)

\* the records of the call at hand, and the places (record, detail) at which
\* the trimmed detail text d stands in them
Formatted == ret.op = "format_results" /\ ret.ok
PlacesOf(d) ==
    UNION {{<<r, i>> : i \in {i \in DOMAIN request.results[r].details :
                              TextOf(request.results[r].details[i].text) = d}} :
                   r \in DOMAIN request.results}
TrimmedDetails == {d \in UNION {{TextOf(request.results[r].details[i].text) :
                                    i \in DOMAIN request.results[r].details} :
                                 r \in DOMAIN request.results} : d # <<>>}
\* d was first seen before e
SeenBefore(d, e) ==
    \E p \in PlacesOf(d) : \A q \in PlacesOf(e) :
        p[1] < q[1] \/ (p[1] = q[1] /\ p[2] < q[2])
\* the texts of the records that hold the detail text d, read by Field
Gathered(d, Field(_)) ==
    UNION {Field(request.results[p[1]]) : p \in PlacesOf(d)} \ {<<>>}
TopicsIn(rec) == {TextOf(rec.summary.text)}
DomainsIn(rec) == {TextOf(rec.cluster.label)}
InsightsIn(rec) == {TextOf(rec.insights[i].text) : i \in DOMAIN rec.insights}
\* the lines of the output with the given head, and those of block idx
LinesOf(head) == SelectSeq(ret.val, LAMBDA l : l.head = head)
\* block idx lists exactly the texts of S under head, each once, ascending
Lists(idx, head, S) ==
    LET lines == {k \in DOMAIN ret.val : ret.val[k].head = head /\ ret.val[k].idx = idx}
    IN  IF S = {} THEN lines = {}
        ELSE /\ Cardinality(lines) = 1
             /\ \A k \in lines :
                   /\ {ret.val[k].items[m] : m \in DOMAIN ret.val[k].items} = S
                   /\ Len(ret.val[k].items) = Cardinality(S)
                   /\ \A m, n \in DOMAIN ret.val[k].items :
                         m < n => StrLess(ret.val[k].items[m], ret.val[k].items[n])

Expanded == ret.op = "_expand_query_terms" /\ ret.ok
Occurs(word) == Contains(ToLower(Strip(request.query)), word)
Named ==
    <<Strip(request.query)>>
    \o (IF Occurs(FoodTerms[1]) \/ Occurs(FoodTerms[2]) \/ Occurs(FoodTerms[3])
        THEN FoodTerms ELSE <<>>)
    \o (IF Occurs(ShopTerms[1]) \/ Occurs(ShopTerms[2]) \/ Occurs(ShopTerms[3])
        THEN ShopTerms ELSE <<>>)
    \o (IF Occurs(TravelTerms[1]) \/ Occurs(TravelTerms[2]) \/ Occurs(TravelTerms[3])
        THEN TravelTerms ELSE <<>>)
\* where a term first stands in the lower-cased terms, ignoring case
FirstAt(lowered, term) ==
    CHOOSE i \in DOMAIN lowered :
        /\ lowered[i] = ToLower(term)
        /\ \A j \in 1..(i - 1) : lowered[j] # ToLower(term)

\* C25: _expand_query_terms gives nothing for a blank query; otherwise the
\* trimmed query first, then the terms of every triggered family, each term
\* once ignoring case, as it first occurs and in the order of first occurrence.
C25_ExpandedTerms ==
    Expanded =>
        LET named == Named
            lowered == [i \in DOMAIN named |-> ToLower(named[i])]
            at == [i \in DOMAIN ret.val |-> FirstAt(lowered, ret.val[i])]
        IN  IF Strip(request.query) = <<>> THEN ret.val = <<>>
            ELSE /\ ret.val[1] = Strip(request.query)
                 /\ {ToLower(ret.val[i]) : i \in DOMAIN ret.val}
                       = {lowered[i] : i \in DOMAIN lowered}
                 /\ \A i \in DOMAIN ret.val : ret.val[i] = named[at[i]]
                 /\ \A i, j \in DOMAIN ret.val : i < j => at[i] < at[j]
                 /\ \A i, j \in DOMAIN ret.val :
                       i # j => ToLower(ret.val[i]) # ToLower(ret.val[j])

\* 'good restaurants' was expanded, and the result holds food, eat and
\* restaurant
C25_Witness ==
    /\ Expanded
    /\ request.query = <<"g", "o", "o", "d", " ", "r", "e", "s", "t", "a", "u", "r", "a", "n", "t", "s">>
    /\ \A k \in 1..3 : \E i \in DOMAIN ret.val : ret.val[i] = FoodTerms[k]

\* a vector with no component other than 0 (the empty vector is one)
IsZero(v) == \A i \in DOMAIN v : v[i] = 0
Compared == ret.op = "cosine_similarity" /\ request.fn = "cosine_similarity"

\* C26: when either argument of cosine_similarity is empty or of zero norm,
\* the call raises nothing and returns exactly 0.0, whatever the other
\* argument is and whatever its length.
C26_ZeroVectorGivesZero ==
    (Compared /\ (IsZero(request.a) \/ IsZero(request.b))) =>
        ret.ok /\ ret.val = Float(0)

\* a zero vector was compared with a vector of another length that is not
\* zero, and 0.0 came back
C26_Witness ==
    /\ Compared /\ ret.ok
    /\ request.a # <<>> /\ IsZero(request.a)
    /\ ~IsZero(request.b) /\ Len(request.b) # Len(request.a)
    /\ ret.val = Float(0)

\* C27: the memory_retrieve tool raises nothing when the store and the
\* embedding provider are at hand; it returns 'No relevant memory found.'
\* exactly when no record survives the configured minimum score, and the
\* formatted records otherwise.
C27_RetrieveToolAnswers ==
    ret.op = "memory_retrieve" =>
        /\ ret.ok
        /\ \E m \in MinScores :
              \E results \in RetrieveMemory(Graph, request.rows, request.query_vec,
                                            m, request.top_k) :
                 /\ ret.val = NoMemory <=> results = <<>>
                 /\ results # <<>> => ret.val = FormatResults(results)

\* this step is a call of insert_cluster_summary_detail: it alone draws
\* three ids
InsertStep == ret'.op = "insert_cluster_summary_detail" /\ nextId' = nextId + 3

\* C28: insert_cluster_summary_detail is all-or-nothing: a call that fails
\* leaves nodes and edges as they were; a call that succeeds leaves the domain
\* of the label, a new topic and a new detail with the texts given, the edge
\* from the domain to the topic and the edge from the topic to the detail.
C28_InsertAllOrNothing ==
    [][InsertStep =>
          IF ret'.ok
          THEN \E c \in nodes', s \in nodes' \ nodes, d \in nodes' \ nodes :
                  /\ c.kind = "Cluster" /\ c.label = Some(ret'.args[1])
                  /\ s.kind = "Summary" /\ s.text = Some(ret'.args[2])
                  /\ d.kind = "Detail" /\ d.text = Some(ret'.args[3])
                  /\ d.source = Some(ret'.args[4])
                  /\ Edge("HAS_SUMMARY", TheVal(c.id), TheVal(s.id)) \in edges'
                  /\ Edge("HAS_DETAIL", TheVal(s.id), TheVal(d.id)) \in edges'
          ELSE nodes' = nodes /\ edges' = edges]_vars

\* a call has failed after one that succeeded: the graph holds what the first
\* call wrote and nothing of the second
C28_Witness ==
    /\ ret.op = "insert_cluster_summary_detail" /\ ~ret.ok
    /\ nextId = 6
    /\ Cardinality(nodes) = 3 /\ Cardinality(edges) = 2
    /\ execs.seen # <<>>

\* the node of the next state that carries the id of n
Later(n) == {m \in nodes' : m.id = n.id}

\* C29: no operation changes the id or created_at of a node that exists:
\* across every step each node carries an id and a timestamp, and is found
\* afterwards, once, with the same kind, id and created_at.
C29_IdAndCreatedAtKept ==
    [][\A n \in nodes :
          /\ n.id # None /\ n.created_at # None
          /\ Cardinality(Later(n)) = 1
          /\ \A m \in Later(n) : m.kind = n.kind /\ m.created_at = n.created_at]_vars

\* a merge has bound a node written at an earlier time: create_summary or
\* create_domain returned a node older than the call
C29_Witness ==
    /\ ret.ok
    /\ \/ /\ ret.op = "create_summary"
          /\ \E t \in OfKind(nodes, "Topic") :
                t.text = Some(ret.args[1]) /\ TheVal(t.created_at) + 1 < clock
       \/ /\ ret.op = "create_domain"
          /\ \E c \in OfKind(nodes, "Domain") :
                c.label = Some(ret.args[1]) /\ TheVal(c.created_at) + 1 < clock

\* C30: an embedding once set is never changed: a later create_summary with
\* the same text and another embedding leaves the topic's embedding, id and
\* created_at, and no other operation writes the embedding of a node that
\* exists, set or not.
C30_EmbeddingKept ==
    [][\A n \in nodes : \A m \in Later(n) :
          /\ n.embedding # None => m.embedding = n.embedding
          /\ ret'.op # "create_summary" => m.embedding = n.embedding
          /\ ret'.op = "create_summary" /\ ret'.ok /\ n.embedding # None
                /\ n.text = Some(ret'.args[1]) => m = n]_vars

\* create_summary has been called with the text of a topic that holds another
\* vector than the one handed over
C30_Witness ==
    /\ ret.op = "create_summary" /\ ret.ok
    /\ ret.args[2] = Some(<<0, 1>>)
    /\ \E t \in OfKind(nodes, "Topic") :
          t.text = Some(ret.args[1]) /\ t.embedding = Some(<<1, 0>>)

\* C19: a link call between two nodes that exist leaves exactly one
\* relationship of its type between them; when they were linked already (a
\* second call with the pair) it changes no node and no relationship.
C19_LinkIdempotent ==
    [][(/\ LinkReturned
        /\ LinkFrom(ret'.op, ret'.args) # {}
        /\ LinkTo(ret'.op, ret'.args) # {}) =>
           /\ Cardinality(Linked(edges', ret'.op, ret'.args)) = 1
           /\ Linked(edges, ret'.op, ret'.args) # {} =>
                 nodes' = nodes /\ edges' = edges]_vars

\* a link call has just returned for a pair of nodes it was called with
\* before, and one relationship is there
C19_Witness ==
    /\ ret.op \in LinkOps /\ ret.ok
    /\ \E st \in SentFor(ret.op, ret.args) : st.nth = 2
    /\ LinkFrom(ret.op, ret.args) # {} /\ LinkTo(ret.op, ret.args) # {}
    /\ Cardinality(Linked(edges, ret.op, ret.args)) = 1
    /\ LinkType(ret.op) \in label_ready

\* C20: a link call with an id that matches no node raises nothing and
\* changes no node and no relationship; link_summary_to_cluster with an
\* unknown topic id creates no Domain node.
C20_LinkUnknownIdNoOp ==
    [][(ret'.op \in LinkOps /\ ret' # ret) =>
           /\ ret'.ok
           /\ (\/ LinkTo(ret'.op, ret'.args) = {}
               \/ (ret'.op # "link_summary_to_cluster" /\ LinkFrom(ret'.op, ret'.args) = {})) =>
                 nodes' = nodes /\ edges' = edges]_vars

\* link_summary_to_cluster returned for an unknown topic id and a label no
\* Domain has, and there is still no such Domain
C20_Witness ==
    /\ ret.op = "link_summary_to_cluster" /\ ret.ok
    /\ ret.args[1] = Unknown
    /\ LinkFrom(ret.op, ret.args) = {}
    /\ OfKind(nodes, "Topic") # {}

\* C10: every successful create_detail adds exactly one Detail node, with the
\* text and source given and an id no node had before, and returns that id;
\* no step removes a Detail node, so k calls with one text leave k nodes.
CreateDetailReturned == ret'.op = "create_detail" /\ ret'.ok /\ nextId' # nextId
C10_CreateDetailNeverMerges ==
    [][/\ Cardinality(OfKind(nodes', "Detail")) >= Cardinality(DetailNodes)
       /\ CreateDetailReturned =>
            LET new == nodes' \ nodes
            IN  /\ nodes \subseteq nodes'
                /\ Cardinality(new) = 1
                /\ \A n \in new :
                      /\ n.kind = "Detail"
                      /\ n.text = Some(ret'.args[1])
                      /\ n.source = Some(ret'.args[2])
                      /\ n.id = ret'.val.id
                      /\ \A m \in nodes : m.id # n.id]_vars

\* two Detail nodes with one text and one source, the second just created
C10_Witness ==
    /\ ret.op = "create_detail" /\ ret.ok
    /\ \E d, e \in DetailNodes :
          /\ d.id # e.id
          /\ e.id = ret.val.id
          /\ d.text = e.text /\ d.source = e.source
          /\ d.insight_pending = Some(TRUE) /\ e.insight_pending = Some(TRUE)

\* list_pending_details has returned its rows
ListReturned == ret.op = "list_pending_details" /\ ret.ok
Listed == {ret.val[i] : i \in DOMAIN ret.val}
\* the detail was marked by mark_detail_insight_processed
Marked(d) == d.insight_processed_at # None

\* C31: list_pending_details(limit) returns at most limit rows, each the id
\* and text of a detail that was never marked; with a limit no smaller than
\* the number of details it returns every detail that was never marked,
\* whichever of create_detail and insert_cluster_summary_detail wrote it.
C31_PendingUntilMarked ==
    ListReturned =>
        /\ Len(ret.val) <= ret.args[1]
        /\ \A row \in Listed : \E d \in DetailNodes : IdText(d) = row /\ ~Marked(d)
        /\ ret.args[1] >= Cardinality(DetailNodes) =>
              \A d \in DetailNodes : ~Marked(d) => IdText(d) \in Listed

\* a listing that holds a detail written by insert_cluster_summary_detail,
\* which carries no flag, and leaves out a detail that was marked
C31_Witness ==
    /\ ListReturned
    /\ ret.args[1] >= Cardinality(DetailNodes)
    /\ \E d \in DetailNodes :
          d.insight_pending = None /\ ~Marked(d) /\ IdText(d) \in Listed
    /\ \E d \in DetailNodes : Marked(d) /\ IdText(d) \notin Listed

\* the coroutine c issues its priming statement in this step
PrimingStep(c) == calls[c].pc = "priming" /\ calls'[c].pc # "priming"
\* the coroutine c runs the statement of its link operation in this step
WriteStep(c) == calls[c].pc # "idle" /\ calls'[c].pc = "idle"

\* C32: in a link operation the priming statement comes before the write; a
\* failing priming statement raises nothing, the relation type is recorded
\* all the same and the write follows; the write is issued only with the type
\* recorded, and its failure, once the wrapper gives up, reaches the caller
\* and leaves the graph as it was.
C32_PrimingSwallowedWriteRaised ==
    [][\A c \in Callers :
          /\ PrimingStep(c) =>
                /\ calls'[c].pc = "ready"
                /\ calls[c].label \in label_ready'
                /\ ret' = ret /\ nodes' = nodes /\ edges' = edges
          /\ calls[c].pc = "idle" /\ calls'[c].pc = "ready" =>
                calls'[c].label \in label_ready
          /\ WriteStep(c) =>
                /\ calls[c].pc = "ready"
                /\ calls[c].label \in label_ready
                /\ ret'.op = calls[c].op
                /\ ret'.ok = execs'.ok
                /\ ~execs'.ok => nodes' = nodes /\ edges' = edges]_vars

\* a priming statement has just failed: nothing was raised, the type is
\* recorded and the coroutine stands before its write
C32_Witness ==
    \E c \in Callers :
        /\ calls[c].pc = "ready"
        /\ Len(execs.seen) = 1 /\ ~execs.ok
        /\ primed[calls[c].label] > 0
        /\ calls[c].label \in label_ready
        /\ ret.ok

\* C33: the retry wrapper executes again after a race failure, up to three
\* times after the first execution: every execution but the last met a race
\* failure, a race failure ends the run only as the fourth execution, a run
\* whose last execution succeeded returns with no error, and a run of four
\* failures raises the error of the fourth.
C33_RetriedUpToThreeTimes ==
    WrapperRan =>
        LET n == Len(execs.seen)
        IN  /\ n >= 1 /\ n <= Attempts + 1
            /\ \A i \in 1..(n - 1) : Race(execs.seen[i])
            /\ Len(execs.sleeps) = n - 1
            /\ Race(execs.seen[n]) => n = Attempts + 1
            /\ execs.seen[n] = Ok => ret.ok /\ execs.ok
            /\ Failure(execs.seen[n]) =>
                  ~ret.ok /\ ~execs.ok /\ execs.error = execs.seen[n]

\* four executions met race failures, the last another one than the first,
\* and the caller got the last
C33_Witness ==
    /\ WrapperRan /\ ~ret.ok
    /\ Len(execs.seen) = Attempts + 1
    /\ execs.seen[1] = DuplicateTable
    /\ execs.seen[Attempts + 1] = EntityConflict
    /\ execs.error = EntityConflict

\* the details the run r has handed to agent.run since it started: the one
\* at hand, and those it counted as processed
HandedTo(r) ==
    {e.detail_id : e \in {f \in {runs[r].details[i] : i \in DOMAIN runs[r].details} :
                              ~f.error}}
        \cup (IF runs[r].pc \in {"agent", "mark"} THEN {DetailId(r)} ELSE {})

\* C34: no detail is handed to the Reasoner by both of two generate_insights
\* runs on one graph.
C34_NoDetailHandedTwice == HandedTo(1) \cap HandedTo(2) = {}

\* mark_detail_processed returns in this step, called with the id of a detail
MarkedById ==
    /\ ret'.op = "mark_detail_processed" /\ ret'.ok
    /\ ret'.args[1] \in IdsOf("Detail")

\* C35: mark_detail_processed given the id of a detail resolves to that
\* detail and changes no other detail, whatever the texts of the other
\* details are.
C35_ActsOnTheDetailNamed ==
    [][MarkedById =>
          /\ ret'.val = Some(ret'.args[1])
          /\ \A d \in DetailNodes : d.id # Some(ret'.args[1]) => d \in nodes']_vars

\* the detail hangs from a topic that hangs from a domain
Placed(d) ==
    \E t \in OfKind(nodes, "Topic"), c \in OfKind(nodes, "Domain") :
        /\ Edge("HAS_DETAIL", TheVal(t.id), TheVal(d.id)) \in edges
        /\ Edge("HAS_TOPIC", TheVal(c.id), TheVal(t.id)) \in edges

\* C36: when update_from_detail returns {"ok": true} the graph holds a detail
\* of the text given, linked to a topic that is linked to a domain.
C36_OkMeansPlaced ==
    (ret.op = "update_from_detail" /\ ret.ok) =>
        \E d \in DetailNodes : d.text = Some(ret.args[1]) /\ Placed(d)

\* the caller c has one execution of its CREATE statement in this step
ExecutionStep(c) == calls[c].pc = "ready" /\ calls'[c] # calls[c]

\* C37: a call of create_detail or create_insight adds at most one node: an
\* execution that fails leaves the nodes as they were, the next execution
\* carries the id and created_at drawn before the first, and the execution
\* that succeeds adds one node, of that id and created_at.
C37_OneNodePerCreate ==
    [][\A c \in Callers : ExecutionStep(c) =>
          /\ calls'[c].id = calls[c].id /\ calls'[c].created_at = calls[c].created_at
          /\ calls'[c].pc \in {"ready", "failed"} => nodes' = nodes
          /\ calls'[c].pc = "failed" => ~ret'.ok
          /\ calls'[c].pc = "done" =>
                /\ ret'.ok /\ nodes \subseteq nodes'
                /\ Cardinality(nodes' \ nodes) = 1
                /\ \A n \in nodes' \ nodes :
                      n.id = Some(calls[c].id) /\ n.created_at = Some(calls[c].created_at)]_vars

\* a create has returned after two executions that met a race failure, and
\* one node carries its id
C37_Witness ==
    \E c \in Callers :
        /\ calls[c].pc = "done" /\ calls[c].attempt = 2
        /\ Cardinality({n \in nodes : n.id = Some(calls[c].id)}) = 1
        /\ Cardinality(nodes) = 1

(********************* the operations that only read ***********************)
\* list_clusters, store.py lines 170-183: MATCH (c:Domain) RETURN {label} LIMIT $k
ClusterLists(ns, limit) ==
    UNION {Orderings({[label |-> c.label] : c \in T}) :
              T \in Limited(OfKind(ns, "Domain"), limit)}

list_clusters(limit) ==
    /\ \/ \E rows \in ClusterLists(nodes, limit) :
             ret' = Returned("list_clusters", <<limit>>, rows)
       \/ ret' = Raised("list_clusters", <<limit>>)
    /\ UNCHANGED <<nodes, edges, nextId, clock, label_ready>>

\* list_summaries, store.py lines 155-168: the rows {id, text} have none of
\* the keys _flatten_results groups by (lines 494-507), so any rows at all
\* come back as one group with no cluster, summary or details
SummaryLists(ns, limit) ==
    IF Limited(OfKind(ns, "Topic"), limit) = {{}} THEN <<>>
    ELSE <<[cluster |-> EmptyDict, summary |-> EmptyDict, details |-> <<>>]>>

list_summaries(limit) ==
    /\ \/ ret' = Returned("list_summaries", <<limit>>, SummaryLists(nodes, limit))
       \/ ret' = Raised("list_summaries", <<limit>>)
    /\ UNCHANGED <<nodes, edges, nextId, clock, label_ready>>

\* list_insights_for_topics, store.py lines 389-404: no statement is run
\* for an empty list
list_insights_for_topics(topic_ids) ==
    /\ \/ \E rows \in Orderings(InsightsForTopics(Graph, topic_ids)) :
             ret' = Returned("list_insights_for_topics", <<topic_ids>>, rows)
       \/ /\ topic_ids # {}
          /\ ret' = Raised("list_insights_for_topics", <<topic_ids>>)
    /\ UNCHANGED <<nodes, edges, nextId, clock, label_ready>>

\* list_insights_for_topic, store.py lines 406-418
list_insights_for_topic(topic_id) ==
    /\ \/ \E rows \in Orderings(InsightsForTopics(Graph, {topic_id})) :
             ret' = Returned("list_insights_for_topic", <<topic_id>>, rows)
       \/ ret' = Raised("list_insights_for_topic", <<topic_id>>)
    /\ UNCHANGED <<nodes, edges, nextId, clock, label_ready>>

\* retrieve_memory, retrieve.py lines 81-127, on a store: store.retrieve
\* runs its statement, the rows are ranked, and list_insights_for_topic is
\* called for each record kept; an exception of either goes to the caller
RetrieveMemoryCall(query, query_vec, min_score, top_k) ==
    /\ LET res == RetrieveQuery(Graph, _expand_query_terms(query))
       IN  \/ /\ Commit(res)
              /\ \E rows \in Orderings(res.rows) :
                    /\ ~ScoringRaises(rows, query_vec)
                    /\ \E results \in RetrieveMemory([nodes |-> res.nodes, edges |-> res.edges],
                                                     rows, query_vec, min_score, top_k) :
                          ret' = Returned("retrieve_memory", <<query, min_score, top_k>>,
                                          results)
           \/ Raise("retrieve_memory", <<query, min_score, top_k>>)
    /\ UNCHANGED <<nextId, clock, label_ready>>

\* what the graph holds before the reads: topics, details and insights,
\* linked to each other and to a domain
ReadWrites ==
    \/ \E t \in {<<"b">>} : create_summary(t, None)
    \/ \E t \in PlainTexts, src \in Sources : create_detail(t, src, None)
    \/ \E t \in InsightTexts : create_insight(t, None)
    \/ \E id \in IdsOf("Topic"), l \in {<<"a">>} : link_summary_to_cluster(Store, id, l)
    \/ \E d \in IdsOf("Detail"), t \in IdsOf("Topic") : link_detail_to_summary(Store, d, t)
    \/ \E i \in IdsOf("Insight"), t \in IdsOf("Topic") : link_insight_to_topic(Store, i, t)

ReadNext ==
    \/ ReadWrites /\ UNCHANGED <<procVars, dbVars>>
    \/ \E k \in {0, MaxTopK} : list_clusters(k) /\ UNCHANGED <<procVars, dbVars>>
    \/ \E k \in {0, MaxTopK} : list_summaries(k) /\ UNCHANGED <<procVars, dbVars>>
    \/ \E k \in {0, MaxTopK} : list_pending_details(k) /\ UNCHANGED <<procVars, dbVars>>
    \/ \E id \in Refs("Detail") : get_detail_context(id) /\ UNCHANGED <<procVars, dbVars>>
    \/ \E ids \in SUBSET Refs("Topic") :
          list_insights_for_topics(ids) /\ UNCHANGED <<procVars, dbVars>>
    \/ \E id \in Refs("Topic") : list_insights_for_topic(id) /\ UNCHANGED <<procVars, dbVars>>
    \/ \E ref \in Refs("Detail") \cup PlainTexts :
          resolve_detail_id(ref) /\ UNCHANGED <<procVars, dbVars>>
    \/ \E q \in Queries, k \in {MaxTopK} : retrieve(q, k) /\ UNCHANGED <<procVars, dbVars>>
    \/ \E q \in Queries, m \in {0, 35}, k \in {MaxTopK} :
          RetrieveMemoryCall(q, QueryVec, m, k) /\ UNCHANGED <<procVars, dbVars>>

ReadSpec == Init /\ [][ReadNext]_vars

ReadOps == {"list_clusters", "list_summaries", "list_pending_details",
            "get_detail_context", "list_insights_for_topics",
            "list_insights_for_topic", "resolve_detail_id", "retrieve",
            "retrieve_memory"}

\* C38: a step of list_clusters, list_summaries, list_pending_details,
\* get_detail_context, list_insights_for_topics, list_insights_for_topic,
\* resolve_detail_id, retrieve or retrieve_memory leaves every node, with its
\* properties, and every edge as it was, whether it returns something,
\* nothing, or raises.
C38_ReadsLeaveTheGraph ==
    [][ret'.op \in ReadOps => nodes' = nodes /\ edges' = edges]_vars

\* retrieve_memory has returned a record with its insight, and the graph
\* holds the topic, its domain and the insight
C38_Witness ==
    /\ ret.op = "retrieve_memory" /\ ret.ok
    /\ ret.val # <<>>
    /\ ret.val[1].insights # <<>>
    /\ OfKind(nodes, "Insight") # {}

(*********************** cli.py: the retrieve command **********************)
\* item.get(key, default) on a dict
Get(item, key, default) == IF key \in DOMAIN item THEN item[key] ELSE default

\* retrieve.py lines 31-34, for a row of GraphStore.retrieve: its keys are
\* cluster, summary and detail, so "details" and "insights" read as []
AsRecord(row) ==
    [cluster |-> TheVal(Get(row, "cluster", Some(EmptyDict))),
     summary |-> TheVal(Get(row, "summary", Some(EmptyDict))),
     details |-> Get(row, "details", <<>>),
     insights |-> Get(row, "insights", <<>>)]

\* _retrieve_once, cli.py lines 59-65: `format_results(results) if results
\* else ""` on the rows as store.retrieve returned them
RetrieveOnce(rows) ==
    IF rows = <<>> THEN <<>>
    ELSE FormatResults([i \in DOMAIN rows |-> AsRecord(rows[i])])

\* _retrieve_sync, cli.py lines 110-116: ensure_graph, retrieve, close; the
\* text printed, as lines.  An exception of the store ends the command.
retrieve_command(query, top_k) ==
    /\ LET res == RetrieveQuery(Graph, _expand_query_terms(query))
       IN  \/ /\ Commit(res)
              /\ \E rows \in Orderings(res.rows) :
                    ret' = Returned("retrieve_command", <<query, top_k>>,
                                    IF RetrieveOnce(rows) = <<>> THEN NoMemory
                                    ELSE RetrieveOnce(rows))
           \/ Raise("retrieve_command", <<query, top_k>>)
    /\ UNCHANGED <<nextId, clock, label_ready>>

CliNext ==
    \/ \E l \in {<<"a">>}, t \in {<<"b">>}, d \in PlainTexts, src \in Sources :
          insert_cluster_summary_detail(l, t, d, src) /\ UNCHANGED <<procVars, dbVars>>
    \/ ReadWrites /\ UNCHANGED <<procVars, dbVars>>
    \/ \E q \in Queries, k \in 1..MaxTopK :
          retrieve_command(q, k) /\ UNCHANGED <<procVars, dbVars>>

CliSpec == Init /\ [][CliNext]_vars

\* the texts of the details in the rows retrieve matches for a query
MatchedDetailTexts(query) ==
    {TextOf(TheVal(r.detail).text) :
        r \in {r \in RetrieveQuery(Graph, _expand_query_terms(query)).rows :
                 r.detail # None}} \ {<<>>}

\* the detail texts among the lines printed
PrintedDetails(out) ==
    {out[i].items[1] : i \in {i \in DOMAIN out : out[i].head = "Detail"}}

\* C39: the retrieve command prints the text of each detail in the rows
\* GraphStore.retrieve matched, and prints 'No relevant memory found.' only
\* when no matched row has a detail.
C39_PrintsMatchedDetails ==
    ret.op = "retrieve_command" /\ ret.ok =>
        /\ PrintedDetails(ret.val) = MatchedDetailTexts(ret.args[1])
        /\ ret.val = NoMemory => MatchedDetailTexts(ret.args[1]) = {}

(**************************** age.py: _dollar_quote ************************)
\* how long a text to quote may be
MaxText == 5

\* str(counter)
RECURSIVE Str(_)
Str(n) == IF n < 10 THEN <<Digits[n + 1]>> ELSE Str(n \div 10) \o <<Digits[(n % 10) + 1]>>

\* lines 69 and 73: "$q$", and f"$q{counter}$"
Delimiter(counter) ==
    IF counter = 0 THEN <<"$", "q", "$">> ELSE <<"$", "q">> \o Str(counter) \o <<"$">>

\* the texts to quote: of the characters a delimiter is made of
QuoteTexts == UNION {[1..n -> {"$", "q", "1"}] : n \in 0..MaxText}

QuoteInit ==
    /\ GraphInit
    /\ HealthyDb
    /\ \E text \in QuoteTexts :
          request = [fn |-> "_dollar_quote", text |-> text, counter |-> 0,
                     delimiter |-> Delimiter(0)]

\* lines 71-73: one turn of the loop
QuoteLoop ==
    /\ request.fn = "_dollar_quote"
    /\ ret.op = "init"
    /\ Contains(request.text, request.delimiter)
    /\ request' = [request EXCEPT !.counter = @ + 1, !.delimiter = Delimiter(request.counter + 1)]
    /\ UNCHANGED <<nodes, edges, nextId, clock, label_ready, ret>>

\* line 74, once the delimiter is not in the text
QuoteReturn ==
    /\ request.fn = "_dollar_quote"
    /\ ret.op = "init"
    /\ ~Contains(request.text, request.delimiter)
    /\ ret' = Returned("_dollar_quote", <<request.text>>,
                       request.delimiter \o request.text \o request.delimiter)
    /\ UNCHANGED <<nodes, edges, nextId, clock, label_ready, request>>

QuoteNext ==
    \/ QuoteLoop /\ UNCHANGED <<procVars, faults, execs, catalog, starters, graph_name, sent, primed>>
    \/ QuoteReturn /\ UNCHANGED <<procVars, faults, execs, catalog, starters, graph_name, sent, primed>>

QuoteSpec == QuoteInit /\ [][QuoteNext]_vars

\* the loop is left alone by nothing: it runs until it returns
QuoteFairSpec == QuoteSpec /\ WF_vars(QuoteNext)

\* where a dollar-quoted string that opens with d ends: at the first d after
\* the opening one.  The offsets, in the body, at which d occurs
Closings(body, d) ==
    {i \in 0..(Len(body) - Len(d)) : SubSeq(body, i + 1, i + Len(d)) = d}

\* the call returns, with delimiter + text + delimiter, the delimiter not in the text
QuoteReturnsWrapped ==
    ret.op = "_dollar_quote" =>
        /\ ret.val = request.delimiter \o ret.args[1] \o request.delimiter
        /\ ~Contains(ret.args[1], request.delimiter)

QuoteTerminates == <>(ret.op = "_dollar_quote")

\* C40: _dollar_quote returns delimiter + text + delimiter with a delimiter
\* $q$ or $qN$ that is not in the text, and the quoting closes where the
\* text ends, never earlier.
C40_QuotingClosesAtTheEnd ==
    ret.op = "_dollar_quote" =>
        /\ ret.val = request.delimiter \o ret.args[1] \o request.delimiter
        /\ ~Contains(ret.args[1], request.delimiter)
        /\ \A i \in Closings(ret.args[1] \o request.delimiter, request.delimiter) :
              i = Len(ret.args[1])

====
